---------------------------- MODULE Spec2Model ----------------------------
(***************************************************************************)
(* boring-router: the navigation engine (core/src/library/router.ts).      *)
(*                                                                         *)
(* A path string is modelled as the sequence of its segments:              *)
(*   ""  is <<>>,  "/" is <<"">>,  "/parent/nested" is <<"parent","nested">>*)
(* A search string is the sequence of its <<key, value>> pairs; a value is *)
(* itself a path (<<>> for the empty string).                              *)
(* A Location object is [id, pathname, search]: id stands for the object's *)
(* identity (the engine compares locations with !==), pathname and search  *)
(* for its contents.                                                       *)
(***************************************************************************)
EXTENDS Integers, Sequences, FiniteSets, TLC

(***************************************************************************)
(* Bounds of the model.                                                    *)
(***************************************************************************)
\* Location events delivered to the router (initial one, pushes, reverts).
MaxEvents == 4

\* Segments of the paths the matcher is probed with.
MaxPathLen == 3

(***************************************************************************)
(* Generic helpers.                                                        *)
(***************************************************************************)
Range(s) == {s[i] : i \in 1..Len(s)}

RECURSIVE Reverse(_)
Reverse(s) == IF s = <<>> THEN <<>> ELSE Append(Reverse(Tail(s)), Head(s))

RECURSIVE Filter(_, _)
\* The elements of s that are not in the set drop, in the order of s.
Filter(s, drop) ==
    IF s = <<>> THEN <<>>
    ELSE IF Head(s) \in drop THEN Filter(Tail(s), drop)
         ELSE <<Head(s)>> \o Filter(Tail(s), drop)

RECURSIVE Concat(_)
Concat(ss) == IF ss = <<>> THEN <<>> ELSE Head(ss) \o Concat(Tail(ss))

IsPrefixOf(p, s) == Len(p) <= Len(s) /\ SubSeq(s, 1, Len(p)) = p

(***************************************************************************)
(* The route schema the router is created with (the tree of _build).       *)
(*   default: {$match: ''}, about: {$query: {id: true}},                   *)
(*   parent: {$exact: true, $children: {nested: {$query: {tab: true}}}},   *)
(*   side: {$group: 'g1'}, panel: {$group: 'g2'},                          *)
(*   solo: true (with $parallel({groups: ['g1']})),                        *)
(*   duo: true (with $parallel({matches: [panel]})),                       *)
(*   lab: {$children: {num: {$match: /[0-9]+/},                            *)
(*                     popup: {$group: 'g1'},                              *)
(*                     any: {$match: '*', $children: {x: true}},           *)
(*                     bee: {$match: 'b', $children: {y: true}}}}          *)
(***************************************************************************)
Undefined == "undefined"

Nodes == {"default", "about", "parent", "nested", "side", "panel", "solo", "duo",
          "lab", "num", "any", "x", "bee", "y", "popup"}

RouterChildren == <<"default", "about", "parent", "side", "panel", "solo", "duo", "lab">>

NoParallel == [has |-> FALSE, groups |-> {}, matches |-> {}]

\* A schema entry with the defaults of _build: $exact false, no $group, no
\* $children, no parallel whitelist, no $query.
Entry(match) ==
    [match |-> match, exact |-> FALSE, group |-> Undefined, hasGroup |-> FALSE,
     children |-> <<>>, parallel |-> NoParallel, hasQuery |-> FALSE, query |-> {}]

Schema ==
    [n \in Nodes |->
        CASE n = "default" -> Entry("")
          [] n = "about"   -> [Entry("about") EXCEPT !.hasQuery = TRUE, !.query = {"id"}]
          [] n = "parent"  -> [Entry("parent") EXCEPT !.exact = TRUE,
                                                      !.children = <<"nested">>]
          [] n = "nested"  -> [Entry("nested") EXCEPT !.hasQuery = TRUE, !.query = {"tab"}]
          [] n = "side"    -> [Entry("side") EXCEPT !.group = "g1", !.hasGroup = TRUE]
          [] n = "panel"   -> [Entry("panel") EXCEPT !.group = "g2", !.hasGroup = TRUE]
          [] n = "solo"    -> [Entry("solo") EXCEPT
                                 !.parallel = [has |-> TRUE, groups |-> {"g1"},
                                               matches |-> {}]]
          [] n = "duo"     -> [Entry("duo") EXCEPT
                                 !.parallel = [has |-> TRUE, groups |-> {},
                                               matches |-> {"panel"}]]
          [] n = "lab"     -> [Entry("lab") EXCEPT
                                 !.children = <<"num", "popup", "any", "bee">>]
          [] n = "num"     -> Entry("[0-9]+")
          [] n = "any"     -> [Entry("*") EXCEPT !.children = <<"x">>]
          [] n = "bee"     -> [Entry("b") EXCEPT !.children = <<"y">>]
          [] n = "popup"   -> [Entry("popup") EXCEPT !.group = "g1", !.hasGroup = TRUE]
          [] OTHER         -> Entry(n)]

\* The kind of this._matchPattern: a string, the regular expression made
\* for '*', or a regular expression of the schema.
PatternKind(n) ==
    CASE n = "any" -> "star"
      [] n = "num" -> "regex"
      [] OTHER     -> "string"

\* match.global of a regular expression of the schema.
PatternGlobal(n) == FALSE

\* target._children, for the router itself and for a route match.
Children(target) == IF target = "router" THEN RouterChildren ELSE Schema[target].children

ParentOf(n) ==
    IF \E p \in Nodes : n \in Range(Schema[p].children)
    THEN CHOOSE p \in Nodes : n \in Range(Schema[p].children)
    ELSE "router"

RECURSIVE Group(_)
\* $group of a route match: the schema's own $group, else the parent's.
Group(n) ==
    IF Schema[n].hasGroup THEN Schema[n].group
    ELSE IF ParentOf(n) = "router" THEN Undefined ELSE Group(ParentOf(n))

RECURSIVE GroupsFrom(_)
GroupsFrom(children) ==
    IF children = <<>> THEN <<>>
    ELSE LET g == Group(Head(children))
             rest == GroupsFrom(Tail(children))
         IN IF g = Undefined THEN rest ELSE <<g>> \o Filter(rest, {g})

\* this._groups: the groups of the top-level matches, in insertion order.
Groups == GroupsFrom(RouterChildren)

\* `_${group}`
GroupKey(group) == CASE group = "g1" -> "_g1" [] group = "g2" -> "_g2" [] OTHER -> "_"

RECURSIVE Ancestors(_)
Ancestors(n) ==
    IF ParentOf(n) = "router" THEN {} ELSE {ParentOf(n)} \cup Ancestors(ParentOf(n))

\* Router options: prefix and default path.
Prefix == <<"app">>

DefaultPath == <<"app">>

(***************************************************************************)
(* Locations.                                                              *)
(***************************************************************************)
NoLocation == [id |-> 0, pathname |-> <<>>, search |-> <<>>]

\* The contents a pushed location may have.
Targets ==
    { [pathname |-> <<"app">>, search |-> <<>>],
      [pathname |-> <<"app", "about">>, search |-> <<>>],
      [pathname |-> <<"app", "parent">>, search |-> <<>>],
      [pathname |-> <<"app", "parent", "nested">>, search |-> <<>>],
      [pathname |-> <<"app", "about">>, search |-> << <<"_g1", <<"side">> >> >>],
      [pathname |-> <<"other">>, search |-> <<>>] }

\* parsePath(defaultPath)
DefaultLocation == [pathname |-> DefaultPath, search |-> <<>>]

MakeLocation(i, t) == [id |-> i, pathname |-> t.pathname, search |-> t.search]

isLocationEqual(a, b) == a.pathname = b.pathname /\ a.search = b.search

testPathPrefix(path, prefix) == IsPrefixOf(prefix, path)

(***************************************************************************)
(* The matcher.                                                            *)
(***************************************************************************)
\* isPathPrefix(rest, pattern) for a pattern without "/": the first segment
\* of rest is the pattern.
isPathPrefix(rest, pattern) == rest # <<>> /\ Head(rest) = pattern

\* The RouteMatch constructor throws 'Expecting a non-global regular
\* expression as match pattern' for some entry: the tree is not built.
BuildThrows == \E n \in Nodes : PatternKind(n) = "regex" /\ PatternGlobal(n)

\* What /[0-9]+/ finds in one segment: "whole" when the match is the whole
\* segment, "partial" when the segment has a match that is not the whole
\* segment (it starts later, or is followed by another character), "none".
RegexHit(segment) ==
    CASE segment = "1"  -> "whole"
      [] segment = "a1" -> "partial"
      [] OTHER          -> "none"

\* The index of the segment in which pattern.exec(rest) finds its match, 0
\* when it finds none.
RegexExec(rest) ==
    IF \E j \in 1..Len(rest) : RegexHit(rest[j]) # "none"
    THEN CHOOSE j \in 1..Len(rest) :
            /\ RegexHit(rest[j]) # "none"
            /\ \A k \in 1..(j - 1) : RegexHit(rest[k]) = "none"
    ELSE 0

\* RouteMatch._match throws 'Invalid regular expression pattern': the text
\* matched is not a path prefix of the rest.
SegmentThrows(n, upperRest) ==
    /\ upperRest # <<>>
    /\ PatternKind(n) = "regex"
    /\ RegexExec(upperRest) # 0
    /\ ~(RegexExec(upperRest) = 1 /\ RegexHit(upperRest[1]) = "whole")

\* RouteMatch._match on the pattern: the segment matched and the rest.
SegmentMatch(n, upperRest) ==
    IF upperRest = <<>>
    THEN [current |-> Undefined, rest |-> <<>>]
    ELSE CASE PatternKind(n) = "string" ->
                IF isPathPrefix(upperRest, Schema[n].match)
                THEN [current |-> Schema[n].match, rest |-> Tail(upperRest)]
                ELSE [current |-> Undefined, rest |-> <<>>]
           [] PatternKind(n) = "star" ->
                [current |-> Head(upperRest), rest |-> Tail(upperRest)]
           [] PatternKind(n) = "regex" ->
                IF RegexExec(upperRest) = 1
                THEN [current |-> Head(upperRest), rest |-> Tail(upperRest)]
                ELSE [current |-> Undefined, rest |-> <<>>]

\* RouteMatch._match as the router uses it: {matched, exactlyMatched,
\* segment, rest}. A match with children terminates a chain only if it is
\* declared $exact.
RouteMatchMatch(n, upperRest) ==
    LET r == SegmentMatch(n, upperRest)
        matched == r.current # Undefined
        exactlyMatched == matched /\ r.rest = <<>>
        refused == exactlyMatched /\ Schema[n].children # <<>> /\ ~Schema[n].exact
    IN [matched |-> matched /\ ~refused,
        exactlyMatched |-> exactlyMatched /\ ~refused,
        segment |-> r.current,
        rest |-> r.rest]

RECURSIVE MatchChildren_NoBacktrack(_, _, _)
\* Faulty variant: the loop gives up when the subtree of the first child
\* that matches the segment does not match the rest.
MatchChildren_NoBacktrack(children, k, upperRest) ==
    IF k > Len(children) THEN <<>>
    ELSE LET routeMatch == children[k]
             r == RouteMatchMatch(routeMatch, upperRest)
         IN IF ~r.matched THEN MatchChildren_NoBacktrack(children, k + 1, upperRest)
            ELSE IF r.exactlyMatched
                 THEN << [match |-> routeMatch, segment |-> r.segment, exact |-> TRUE] >>
                 ELSE LET result == MatchChildren_NoBacktrack(Children(routeMatch), 1, r.rest)
                      IN IF result = <<>> THEN <<>>
                         ELSE << [match |-> routeMatch, segment |-> r.segment,
                                  exact |-> FALSE] >> \o result

RECURSIVE MatchChildren_DropsAncestor(_, _, _)
\* Faulty variant: the match whose subtree matched the rest is not put in
\* front of the chain of its subtree.
MatchChildren_DropsAncestor(children, k, upperRest) ==
    IF k > Len(children) THEN <<>>
    ELSE LET routeMatch == children[k]
             r == RouteMatchMatch(routeMatch, upperRest)
         IN IF ~r.matched THEN MatchChildren_DropsAncestor(children, k + 1, upperRest)
            ELSE IF r.exactlyMatched
                 THEN << [match |-> routeMatch, segment |-> r.segment, exact |-> TRUE] >>
                 ELSE LET result ==
                              MatchChildren_DropsAncestor(Children(routeMatch), 1, r.rest)
                      IN IF result = <<>>
                         THEN MatchChildren_DropsAncestor(children, k + 1, upperRest)
                         ELSE result

RECURSIVE MatchChildren(_, _, _)
\* The loop of Router._match over target._children from index k on.
\* <<>> stands for undefined (a chain that is found is never empty).
MatchChildren(children, k, upperRest) ==
    IF k > Len(children) THEN <<>>
    ELSE LET routeMatch == children[k]
             r == RouteMatchMatch(routeMatch, upperRest)
         IN IF ~r.matched THEN MatchChildren(children, k + 1, upperRest)
            ELSE IF r.exactlyMatched
                 THEN << [match |-> routeMatch, segment |-> r.segment, exact |-> TRUE] >>
                 ELSE LET result == MatchChildren(Children(routeMatch), 1, r.rest)
                      IN IF result = <<>>
                         THEN MatchChildren(children, k + 1, upperRest)
                         ELSE << [match |-> routeMatch, segment |-> r.segment,
                                  exact |-> FALSE] >> \o result

\* Router._match(target, upperRest)
Match(target, upperRest) == MatchChildren(Children(target), 1, upperRest)

RECURSIVE MatchChildrenThrows(_, _, _)
\* The loop of Router._match ends by an exception of a RouteMatch._match it
\* calls (its own or one of a recursive call).
MatchChildrenThrows(children, k, upperRest) ==
    IF k > Len(children) THEN FALSE
    ELSE LET routeMatch == children[k]
             r == RouteMatchMatch(routeMatch, upperRest)
         IN IF SegmentThrows(routeMatch, upperRest) THEN TRUE
            ELSE IF ~r.matched THEN MatchChildrenThrows(children, k + 1, upperRest)
            ELSE IF r.exactlyMatched THEN FALSE
            ELSE IF MatchChildrenThrows(Children(routeMatch), 1, r.rest) THEN TRUE
            ELSE IF MatchChildren(Children(routeMatch), 1, r.rest) = <<>>
                 THEN MatchChildrenThrows(children, k + 1, upperRest)
                 ELSE FALSE

MatchThrows(target, upperRest) == MatchChildrenThrows(Children(target), 1, upperRest)

(***************************************************************************)
(* Route sources (snapshots) and the matching part of                      *)
(* _asyncOnLocationChange.                                                 *)
(***************************************************************************)
EmptyDict == [k \in {} |-> <<>>]

EmptySource == [matchToMatchEntryMap |-> <<>>, queryDict |-> EmptyDict,
                pathDict |-> EmptyDict]

\* Map keys in insertion order.
Keys(map) == [i \in 1..Len(map) |-> map[i].match]

HasKey(map, m) == \E i \in 1..Len(map) : map[i].match = m

EntryOf(map, m) == map[CHOOSE i \in 1..Len(map) : map[i].match = m]

\* Map.set(entry.match, entry): replaces in place, else appends.
MapSet(map, entry) ==
    IF HasKey(map, entry.match)
    THEN [i \in 1..Len(map) |-> IF map[i].match = entry.match THEN entry ELSE map[i]]
    ELSE Append(map, entry)

RECURSIVE MapSetAll(_, _)
MapSetAll(map, entries) ==
    IF entries = <<>> THEN map
    ELSE MapSetAll(MapSet(map, Head(entries)), Tail(entries))

\* Array.from(new URLSearchParams(search)).reduce(...): the last value of a key wins.
QueryDictOf(search) ==
    [k \in {search[i][1] : i \in 1..Len(search)} |->
        search[CHOOSE i \in 1..Len(search) :
                  /\ search[i][1] = k
                  /\ \A j \in (i + 1)..Len(search) : search[j][1] # k][2]]

DictDelete(dict, keys) == [k \in (DOMAIN dict) \ keys |-> dict[k]]

\* pathname.slice(prefix.length) || '/'
PathWithoutPrefix(pathname) ==
    LET sliced == SubSeq(pathname, Len(Prefix) + 1, Len(pathname))
    IN IF sliced = <<>> THEN <<"">> ELSE sliced

RECURSIVE GroupPathInfos(_, _)
\* The loop extracting the group route paths from the query.
GroupPathInfos(groups, queryDict) ==
    IF groups = <<>> THEN <<>>
    ELSE LET group == Head(groups)
             key == GroupKey(group)
             rest == GroupPathInfos(Tail(groups), queryDict)
         IN IF key \notin DOMAIN queryDict THEN rest
            ELSE IF queryDict[key] # <<>>
                 THEN << [path |-> queryDict[key], group |-> group] >> \o rest
                 ELSE rest

\* Faulty variant: the key of a group is deleted only when its value is used
\* as a path (the delete is inside the if).
StrippedQueryDict_UsedOnly(queryDict) ==
    DictDelete(queryDict, {GroupKey(Groups[i]) : i \in
                              {j \in 1..Len(Groups) :
                                  /\ GroupKey(Groups[j]) \in DOMAIN queryDict
                                  /\ queryDict[GroupKey(Groups[j])] # <<>>}})

StrippedQueryDict(queryDict) ==
    DictDelete(queryDict, {GroupKey(Groups[i]) : i \in 1..Len(Groups)})

PathInfos(pathname, queryDict) ==
    << [path |-> PathWithoutPrefix(pathname), group |-> Undefined] >>
        \o GroupPathInfos(Groups, queryDict)

PathDictOf(pathInfos) ==
    [k \in {IF pathInfos[i].group = Undefined THEN "_" ELSE pathInfos[i].group :
               i \in 1..Len(pathInfos)} |->
        LET i == CHOOSE i \in 1..Len(pathInfos) :
                    k = (IF pathInfos[i].group = Undefined THEN "_" ELSE pathInfos[i].group)
        IN pathInfos[i].path]

RECURSIVE GroupToMatchEntries(_)
\* "Match parallel routes": the accepted chains as [group, entries], in
\* insertion order of groupToMatchEntriesMap.
GroupToMatchEntries(pathInfos) ==
    IF pathInfos = <<>> THEN <<>>
    ELSE LET info == Head(pathInfos)
             routeMatchEntries == Match("router", info.path)
             rest == GroupToMatchEntries(Tail(pathInfos))
         IN IF routeMatchEntries = <<>> THEN rest
            ELSE IF Group(routeMatchEntries[1].match) # info.group THEN rest
                 ELSE << [group |-> info.group, entries |-> routeMatchEntries] >> \o rest

\* Faulty variant: the whitelist is not looked at.
WhitelistedEntries_KeepAll(chains, whitelist) ==
    Concat([i \in 1..Len(chains) |-> chains[i].entries])

RECURSIVE WhitelistedEntries(_, _)
WhitelistedEntries(chains, whitelist) ==
    IF chains = <<>> THEN <<>>
    ELSE LET c == Head(chains)
             keep == \/ c.group = Undefined
                     \/ c.group \in whitelist.groups
                     \/ c.entries[1].match \in whitelist.matches
         IN (IF keep THEN c.entries ELSE <<>>)
                \o WhitelistedEntries(Tail(chains), whitelist)

\* Faulty variant: without a primary chain the chains of the groups are kept.
NextMatchEntryMap_GroupsAlone(chains) ==
    IF chains = <<>> THEN <<>>
    ELSE LET whitelist == Schema[chains[1].entries[1].match].parallel
             matchEntries ==
                 IF chains[1].group = Undefined /\ whitelist.has
                 THEN WhitelistedEntries(chains, whitelist)
                 ELSE Concat([i \in 1..Len(chains) |-> chains[i].entries])
         IN MapSetAll(<<>>, matchEntries)

\* "Check primary match parallel whitelist": the next matchToMatchEntryMap.
NextMatchEntryMap(chains) ==
    IF chains = <<>> \/ chains[1].group # Undefined THEN <<>>
    ELSE LET whitelist == Schema[chains[1].entries[1].match].parallel
             matchEntries ==
                 IF whitelist.has THEN WhitelistedEntries(chains, whitelist)
                 ELSE Concat([i \in 1..Len(chains) |-> chains[i].entries])
         IN MapSetAll(<<>>, matchEntries)

\* The matching of a location under the prefix ends by an exception.
MatchingThrows(loc) ==
    LET pathInfos == PathInfos(loc.pathname, QueryDictOf(loc.search))
    IN \E k \in 1..Len(pathInfos) : MatchThrows("router", pathInfos[k].path)

\* What runInAction assigns to _matchingSource for a location under the prefix.
MatchingSourceOf(loc) ==
    LET queryDict == QueryDictOf(loc.search)
        pathInfos == PathInfos(loc.pathname, queryDict)
    IN [matchToMatchEntryMap |-> NextMatchEntryMap(GroupToMatchEntries(pathInfos)),
        queryDict |-> StrippedQueryDict(queryDict),
        pathDict |-> PathDictOf(pathInfos)]

(***************************************************************************)
(* State of the router, the history provider and the route matches.        *)
(***************************************************************************)
VARIABLES
    listening,        \* history.listen(this._onLocationChange) has been called
    created,          \* number of Location objects the history has created
    historyLocation,  \* history.location
    nextLocation,     \* Router._nextLocation
    location,         \* Router._location
    source,           \* Router._source (committed snapshot)
    matchingSource,   \* Router._matchingSource (speculative snapshot)
    matched,          \* RouteMatch._matched of every match
    exact,            \* RouteMatch._exactlyMatched of every match
    changing,         \* Router._changing: the invocations of
                      \* _asyncOnLocationChange chained and not yet settled
    log,              \* history variable: what the invocation begun last has
                      \* done so far (hooks called, commit, callbacks)
    last,             \* history variable: how the invocation settled last ended
    vetoed,           \* history variable: the last before hook that returned
                      \* false to a transition not stale, until the next push,
                      \* and how many such vetoes (so reverts) there were
                      \* since the last push
    redirected,       \* history variable: the last push made while a
                      \* beforeEnter hook was running, until the next push
    registered,       \* the removable hook callbacks still registered
    fired,            \* history variable: the invocations of the removable
                      \* callbacks, as [callback, id of the transition]
    probe,            \* a call of the matcher on its own: its arguments
    answer,           \* what that call returned
    routeState        \* RouteMatch._matched and RouteMatch._query of every
                      \* match, as RouteMatch._push of src/library assigns them

vars == <<listening, created, historyLocation, nextLocation, location, source,
          matchingSource, matched, exact, changing, log, last, vetoed, redirected,
          registered, fired, probe, answer, routeState>>

\* The state handlers read and write, as one record.
World ==
    [created |-> created, historyLocation |-> historyLocation,
     nextLocation |-> nextLocation, location |-> location, source |-> source,
     matchingSource |-> matchingSource, matched |-> matched, exact |-> exact,
     changing |-> changing, log |-> log, last |-> last, vetoed |-> vetoed,
     registered |-> registered, fired |-> fired]

SetWorld(w) ==
    /\ created' = w.created
    /\ historyLocation' = w.historyLocation
    /\ nextLocation' = w.nextLocation
    /\ location' = w.location
    /\ source' = w.source
    /\ matchingSource' = w.matchingSource
    /\ matched' = w.matched
    /\ exact' = w.exact
    /\ changing' = w.changing
    /\ log' = w.log
    /\ last' = w.last
    /\ vetoed' = w.vetoed
    /\ registered' = w.registered
    /\ fired' = w.fired
    /\ UNCHANGED <<probe, answer, routeState>>

\* The committed state: what only the commit step may write.
Committed(w) ==
    [location |-> w.location, source |-> w.source, matched |-> w.matched,
     exact |-> w.exact]

NoCommitted ==
    [location |-> NoLocation, source |-> EmptySource,
     matched |-> [n \in Nodes |-> FALSE], exact |-> [n \in Nodes |-> FALSE]]

Event(type, kind, match, from, to) ==
    [type |-> type, kind |-> kind, match |-> match, from |-> from, to |-> to]

NoVeto == [id |-> 0, kind |-> "none", match |-> "", pre |-> NoCommitted,
           log |-> <<>>, next |-> <<>>, reverts |-> 0]

NoLast == [id |-> 0, outcome |-> "none", phase |-> "queued", pre |-> NoCommitted,
           log |-> <<>>]

NoRedirect == [id |-> 0, match |-> "", to |-> NoLocation, pre |-> NoCommitted,
               next |-> <<>>]

(***************************************************************************)
(* The hook registry of the route matches. Every hook of every match has   *)
(* the application's callback, registered for good (its result is the      *)
(* input of BeforeHookReturn / AfterHookReturn). about.$afterEnter has a   *)
(* second callback, registered after the first, whose removal callback the *)
(* application keeps.                                                      *)
(***************************************************************************)
RemovableCallbacks == {"canceledAboutAfterEnter"}

\* The match and hook kind a removable callback was registered on.
CallbackHook(cb) == [match |-> "about", kind |-> "afterEnter"]

\* The removable callbacks a hook has still to call after its first callback.
PendingCallbacks(reg, m, kind) ==
    {cb \in reg : CallbackHook(cb) = [match |-> m, kind |-> kind]}

(***************************************************************************)
(* One invocation of _asyncOnLocationChange: its parameter, its position   *)
(* (phase and loop index) and its local variables.                         *)
(***************************************************************************)
QueuedTask(loc) ==
    [nextLocation |-> loc, phase |-> "queued", idx |-> 0, sub |-> 1,
     location |-> NoLocation,
     matchToMatchEntryMap |-> <<>>, previousMatchSet |-> <<>>, nextMatchSet |-> <<>>,
     reversedLeavingMatches |-> <<>>, enteringAndUpdatingMatchSet |-> <<>>,
     start |-> NoCommitted]

\* Router._onLocationChange(location)
OnLocationChange(w, loc) ==
    [w EXCEPT !.nextLocation = loc,
              !.changing = Append(@, QueuedTask(loc))]

\* history.push / history.replace: the history makes a new Location object,
\* makes it its current location and calls the listener.
HistoryChange(w, t) ==
    LET loc == MakeLocation(w.created + 1, t)
    IN OnLocationChange([w EXCEPT !.created = @ + 1, !.historyLocation = loc], loc)

\* Faulty variant: the committed location is compared by identity.
SameAsCommitted_ByIdentity(loc, nextLoc) == loc.id = nextLoc.id

\* if (location && isLocationEqual(location, nextLocation)) return
SameAsCommitted(loc, nextLoc) == loc # NoLocation /\ isLocationEqual(loc, nextLoc)

\* Faulty variant: no location is ever taken to be outdated.
IsNextLocationOutDated_Never(loc, nextLoc) == FALSE

\* Router._isNextLocationOutDated(location): location !== this._nextLocation
IsNextLocationOutDated(loc, nextLoc) == loc.id # nextLoc.id

\* Faulty variant: the revert goes to this._location even when it is undefined.
RevertTarget_Committed(loc) == loc

\* Faulty variant: the revert always goes to the default location.
RevertTarget_AlwaysDefault(loc) == DefaultLocation

\* this._location || this._default
RevertTarget(loc) == IF loc # NoLocation THEN loc ELSE DefaultLocation

\* Router._revert()
Revert(w) ==
    LET t == RevertTarget(w.location)
    IN HistoryChange(
           [w EXCEPT !.log = Append(@, Event("revert", "replace", "", NoLocation,
                                              MakeLocation(0, t)))],
           t)

\* Faulty variant: _asyncOnLocationChange is called without chaining it on _changing.
ChainReady_Unchained(i) == TRUE

\* this._changing.then(...): the i-th chained invocation starts once every
\* earlier one has settled (settled invocations are removed from changing).
ChainReady(i) == i = 1

RemoveAt(s, i) == SubSeq(s, 1, i - 1) \o SubSeq(s, i + 1, Len(s))

\* The invocation returns (or throws): the promise chained for it settles.
Settle(w, i, outcome) ==
    [w EXCEPT !.changing = RemoveAt(@, i),
              !.last = [id |-> w.changing[i].nextLocation.id, outcome |-> outcome,
                        phase |-> w.changing[i].phase, pre |-> w.changing[i].start,
                        log |-> w.log]]

\* _pathSegments of a match, read from a snapshot: the segments of the match
\* and of its ancestors.
PathSegments(n, src) ==
    LET map == src.matchToMatchEntryMap
    IN [m \in {m \in {n} \cup Ancestors(n) : HasKey(map, m)} |-> EntryOf(map, m).segment]

\* nextMatch.$exact, read from the speculative snapshot.
NextExact(n, msrc) ==
    HasKey(msrc.matchToMatchEntryMap, n) /\ EntryOf(msrc.matchToMatchEntryMap, n).exact

\* Faulty variant: the matching result is assigned to the committed source as well.
PublishMatching_IntoSource(w, ms) == [w EXCEPT !.source = ms, !.matchingSource = ms]

\* runInAction(() => Object.assign(this._matchingSource, {...}))
PublishMatching(w, ms) == [w EXCEPT !.matchingSource = ms]

\* Faulty variant: the leaving matches are not reversed.
ReversedLeavingMatches_NotReversed(previousMatchSet, nextMatchSet) ==
    Filter(previousMatchSet, Range(nextMatchSet))

\* previousMatchSet minus nextMatchSet, reversed.
ReversedLeavingMatches(previousMatchSet, nextMatchSet) ==
    Reverse(Filter(previousMatchSet, Range(nextMatchSet)))

\* Faulty variant: a change of exactness alone does not count as a change.
Untouched_SegmentsOnly(w, previousMatchSet, nextMatchSet) ==
    {m \in Range(previousMatchSet) :
        /\ m \in Range(nextMatchSet)
        /\ PathSegments(m, w.source) = PathSegments(m, w.matchingSource)}

\* The matches of previousMatchSet that stay matched with the same path
\* segments and exactness.
Untouched(w, previousMatchSet, nextMatchSet) ==
    {m \in Range(previousMatchSet) :
        /\ m \in Range(nextMatchSet)
        /\ PathSegments(m, w.source) = PathSegments(m, w.matchingSource)
        /\ w.exact[m] = NextExact(m, w.matchingSource)}

\* Faulty variant: the unchanged matches are not taken out of the set.
EnteringAndUpdatingMatchSet_All(w, previousMatchSet, nextMatchSet) == nextMatchSet

\* nextMatchSet minus the matches that stay as they are.
EnteringAndUpdatingMatchSet(w, previousMatchSet, nextMatchSet) ==
    Filter(nextMatchSet, Untouched(w, previousMatchSet, nextMatchSet))

\* update ? match._beforeUpdate() : match._beforeEnter()
BeforeHookKind(update) == IF update THEN "beforeUpdate" ELSE "beforeEnter"

\* Faulty variant: the after hooks of the next set are always the update hooks.
AfterHookKind_AlwaysUpdate(update) == "afterUpdate"

\* update ? match._afterUpdate() : match._afterEnter()
AfterHookKind(update) == IF update THEN "afterUpdate" ELSE "afterEnter"

CallHook(w, kind, m) ==
    [w EXCEPT !.log = Append(@, Event("hook", kind, m, NoLocation, NoLocation))]

SetTask(w, i, task) == [w EXCEPT !.changing[i] = task]

RECURSIVE UpdateAll(_, _, _, _)
\* match._update(on, exact) over a list of matches, in order.
UpdateAll(w, matches, on, map) ==
    IF matches = <<>> THEN w
    ELSE LET m == Head(matches)
             ex == on /\ EntryOf(map, m).exact
         IN UpdateAll(
                [w EXCEPT !.matched[m] = on, !.exact[m] = ex,
                          !.log = Append(@, Event("update", IF on THEN "on" ELSE "off",
                                                  m, NoLocation,
                                                  [NoLocation EXCEPT !.id = IF ex THEN 1 ELSE 0]))],
                Tail(matches), on, map)

\* this._location = nextLocation; Object.assign(this._source, this._matchingSource)
CommitSource(w, task) ==
    [w EXCEPT !.location = task.nextLocation,
              !.source = w.matchingSource,
              !.log = Append(@, Event("commit", "", "", NoLocation, task.nextLocation))]

\* Faulty variant: the matches are not updated in the commit step.
Commit_SourceOnly(w, task) == CommitSource(w, task)

\* Faulty variant: the leaving matches are not updated in the commit step.
Commit_LeavingKept(w, task) ==
    UpdateAll(CommitSource(w, task), task.nextMatchSet, TRUE, task.matchToMatchEntryMap)

\* The commit step: location, source, then the updates of the matches.
Commit(w, task) ==
    UpdateAll(
        UpdateAll(CommitSource(w, task), task.reversedLeavingMatches, FALSE,
                  task.matchToMatchEntryMap),
        task.nextMatchSet, TRUE, task.matchToMatchEntryMap)

\* Faulty variant: onChange is given this._location, read after the commit.
Finish_FromCurrent(w, i, task) ==
    Settle([w EXCEPT !.log = Append(@, Event("onChange", "", "", w.location,
                                             task.nextLocation))],
           i, "done")

\* if (this._onChange) this._onChange(location, nextLocation), and the return.
Finish(w, i, task) ==
    Settle([w EXCEPT !.log = Append(@, Event("onChange", "", "", task.location,
                                             task.nextLocation))],
           i, "done")

\* The after hooks from (phase, idx) on: up to the next await, or to the end.
RunAfter(w, i, task, phase, idx) ==
    IF phase = "afterLeave" /\ idx <= Len(task.reversedLeavingMatches)
    THEN SetTask(CallHook(w, "afterLeave", task.reversedLeavingMatches[idx]), i,
                 [task EXCEPT !.phase = "afterLeave", !.idx = idx, !.sub = 1])
    ELSE LET k == IF phase = "afterLeave" THEN 1 ELSE idx
         IN IF k <= Len(task.enteringAndUpdatingMatchSet)
            THEN LET m == task.enteringAndUpdatingMatchSet[k]
                     update == m \in Range(task.previousMatchSet)
                 IN SetTask(CallHook(w, AfterHookKind(update), m), i,
                            [task EXCEPT !.phase = "afterEnter", !.idx = k, !.sub = 1])
            ELSE Finish(w, i, task)

\* The before hooks from (phase, idx) on: up to the next await; when none is
\* left, the commit and the after hooks.
RunBefore(w, i, task, phase, idx) ==
    IF phase = "beforeLeave" /\ idx <= Len(task.reversedLeavingMatches)
    THEN SetTask(CallHook(w, "beforeLeave", task.reversedLeavingMatches[idx]), i,
                 [task EXCEPT !.phase = "beforeLeave", !.idx = idx])
    ELSE LET k == IF phase = "beforeLeave" THEN 1 ELSE idx
         IN IF k <= Len(task.enteringAndUpdatingMatchSet)
            THEN LET m == task.enteringAndUpdatingMatchSet[k]
                     update == m \in Range(task.previousMatchSet)
                 IN SetTask(CallHook(w, BeforeHookKind(update), m), i,
                            [task EXCEPT !.phase = "beforeEnter", !.idx = k])
            ELSE RunAfter(Commit(w, task), i, task, "afterLeave", 1)

\* Faulty variant: a location out of the prefix is reverted like a veto.
LeavePrefix_Reverts(w, i, nextLoc) ==
    Settle(Revert([w EXCEPT !.log = Append(@, Event("onLeave", "", "", NoLocation,
                                                    nextLoc))]),
           i, "outOfPrefix")

\* if (!testPathPrefix(pathname, prefix)) {onLeave(pathname); return}
LeavePrefix(w, i, nextLoc) ==
    Settle([w EXCEPT !.log = Append(@, Event("onLeave", "", "", NoLocation, nextLoc))],
           i, "outOfPrefix")

\* The transition of a matched location, from the publication of the matching
\* result to the first await.
BeginTransition(w, i, task, nextLoc, ms) ==
    LET w1 == [PublishMatching(w, ms) EXCEPT
                  !.log = Append(@, Event("publish", "", "", NoLocation, nextLoc))]
        previousMatchSet == Keys(w1.source.matchToMatchEntryMap)
        nextMatchSet == Keys(ms.matchToMatchEntryMap)
        running ==
            [task EXCEPT
                !.location = w.location,
                !.matchToMatchEntryMap = ms.matchToMatchEntryMap,
                !.previousMatchSet = previousMatchSet,
                !.nextMatchSet = nextMatchSet,
                !.reversedLeavingMatches =
                    ReversedLeavingMatches(previousMatchSet, nextMatchSet),
                !.enteringAndUpdatingMatchSet =
                    EnteringAndUpdatingMatchSet(w1, previousMatchSet, nextMatchSet)]
    IN RunBefore(w1, i, running, "beforeLeave", 1)

\* _asyncOnLocationChange(nextLocation) from its entry to its first await.
AsyncOnLocationChange(w0, i) ==
    LET task == [w0.changing[i] EXCEPT !.start = Committed(w0)]
        nextLoc == task.nextLocation
        w == [w0 EXCEPT !.log = <<>>, !.changing[i] = task]
    IN IF IsNextLocationOutDated(nextLoc, w.nextLocation)
       THEN Settle(w, i, "superseded")
       ELSE IF SameAsCommitted(w.location, nextLoc)
       THEN Settle(w, i, "noop")
       ELSE IF ~testPathPrefix(nextLoc.pathname, Prefix)
       THEN LeavePrefix(w, i, nextLoc)
       ELSE IF MatchingThrows(nextLoc)
       THEN Settle(w, i, "throw")
       ELSE BeginTransition(w, i, task, nextLoc, MatchingSourceOf(nextLoc))

\* Faulty variant: the result of a beforeLeave hook is not looked at.
ResumeBefore_LeaveUnchecked(w, i, result) ==
    LET task == w.changing[i]
    IN IF result = "throw" THEN Settle(w, i, "throw")
       ELSE IF IsNextLocationOutDated(task.nextLocation, w.nextLocation)
       THEN Settle(w, i, "stale")
       ELSE IF result = "false" /\ task.phase = "beforeEnter"
       THEN Settle(Revert(w), i, "veto")
       ELSE RunBefore(w, i, task, task.phase, task.idx + 1)

\* Faulty variant: no staleness check after the await of a before hook.
ResumeBefore_NoStaleCheck(w, i, result) ==
    LET task == w.changing[i]
    IN IF result = "throw" THEN Settle(w, i, "throw")
       ELSE IF result = "false"
       THEN Settle(Revert(w), i, "veto")
       ELSE RunBefore(w, i, task, task.phase, task.idx + 1)

\* Faulty variant: the result of the hook is looked at before the staleness.
ResumeBefore_VetoBeforeStale(w, i, result) ==
    LET task == w.changing[i]
    IN IF result = "throw" THEN Settle(w, i, "throw")
       ELSE IF result = "false"
       THEN Settle(Revert(w), i, "veto")
       ELSE IF IsNextLocationOutDated(task.nextLocation, w.nextLocation)
       THEN Settle(w, i, "stale")
       ELSE RunBefore(w, i, task, task.phase, task.idx + 1)

\* A before hook's promise settles: the rest of the loop body and on.
\* result is "true", "false" or "throw".
ResumeBefore(w, i, result) ==
    LET task == w.changing[i]
    IN IF result = "throw" THEN Settle(w, i, "throw")
       ELSE IF IsNextLocationOutDated(task.nextLocation, w.nextLocation)
       THEN Settle(w, i, "stale")
       ELSE IF result = "false"
       THEN Settle(Revert(w), i, "veto")
       ELSE RunBefore(w, i, task, task.phase, task.idx + 1)

\* The match and kind of the after hook the invocation awaits.
AwaitedAfterHook(task) ==
    IF task.phase = "afterLeave"
    THEN [match |-> task.reversedLeavingMatches[task.idx], kind |-> "afterLeave"]
    ELSE LET m == task.enteringAndUpdatingMatchSet[task.idx]
         IN [match |-> m, kind |-> AfterHookKind(m \in Range(task.previousMatchSet))]

\* Faulty variant: the staleness is tested after the await of an after hook
\* as it is after a before hook.
ResumeAfter_StaleCheck(w, i, result) ==
    LET task == w.changing[i]
    IN IF result = "throw" THEN Settle(w, i, "throw")
       ELSE IF IsNextLocationOutDated(task.nextLocation, w.nextLocation)
       THEN Settle(w, i, "stale")
       ELSE RunAfter(w, i, task, task.phase, task.idx + 1)

\* A callback of the after hook awaited settles. result is "ok" or "throw".
\* The hook goes on to its next registered callback, if any; else the loop
\* of the router goes on.
ResumeAfter(w, i, result) ==
    LET task == w.changing[i]
        hook == AwaitedAfterHook(task)
        pending == PendingCallbacks(w.registered, hook.match, hook.kind)
    IN IF result = "throw" THEN Settle(w, i, "throw")
       ELSE IF task.sub = 1 /\ pending # {}
       THEN SetTask([w EXCEPT !.fired = @ \cup {[callback |-> cb, id |-> task.nextLocation.id] :
                                                   cb \in pending}],
                    i, [task EXCEPT !.sub = 2])
       ELSE RunAfter(w, i, task, task.phase, task.idx + 1)

(***************************************************************************)
(* The RouteMatch of src/library: _push, which assigns _matched and _query *)
(* of a match, and the $query getter.                                      *)
(***************************************************************************)
\* A RouteMatch after its constructor: _matched = false, _query undefined.
NoRouteState ==
    [n \in Nodes |-> [matched |-> FALSE, hasQuery |-> FALSE, query |-> EmptyDict]]

\* {...a, ...b}
Spread(a, b) ==
    [k \in (DOMAIN a) \cup (DOMAIN b) |-> IF k \in DOMAIN b THEN b[k] ELSE a[k]]

\* The RouteMatch._match of _push: nothing is matched when skipped.
PushMatch(n, skipped, upperRest) ==
    IF skipped THEN [current |-> Undefined, rest |-> <<>>]
    ELSE SegmentMatch(n, upperRest)

\* RouteMatch._push: {matched, rest, queryDict}. The declared keys the
\* source query has are added to the upper dictionary when matched.
RouteMatchPush(n, skipped, upperRest, upperQueryDict, sourceQueryDict) ==
    LET r == PushMatch(n, skipped, upperRest)
        isMatched == r.current # Undefined
        own == IF Schema[n].hasQuery /\ isMatched
               THEN [k \in Schema[n].query \cap DOMAIN sourceQueryDict |->
                        sourceQueryDict[k]]
               ELSE EmptyDict
    IN [matched |-> isMatched, rest |-> r.rest,
        queryDict |-> Spread(upperQueryDict, own)]

RECURSIVE PushRouteChange(_, _, _, _, _, _, _)
\* The router pushes a location change down the tree: _push on every child
\* from index k on, each with its subtree; the siblings after a matched
\* one and the subtree of an unmatched one are skipped. An exception of a
\* pattern ends the walk where it is.
PushRouteChange(st, children, k, skipped, upperRest, upperQueryDict, sourceQueryDict) ==
    IF st.thrown \/ k > Len(children) THEN st
    ELSE LET n == children[k]
         IN IF ~skipped /\ SegmentThrows(n, upperRest)
            THEN [st EXCEPT !.thrown = TRUE]
            ELSE LET r == RouteMatchPush(n, skipped, upperRest, upperQueryDict,
                                         sourceQueryDict)
                     own == [st EXCEPT !.nodes[n] =
                                [matched |-> r.matched, hasQuery |-> TRUE,
                                 query |-> r.queryDict]]
                     below == PushRouteChange(own, Children(n), 1, ~r.matched, r.rest,
                                              r.queryDict, sourceQueryDict)
                 IN PushRouteChange(below, children, k + 1, skipped \/ r.matched,
                                    upperRest, upperQueryDict, sourceQueryDict)

\* get $query(): throws 'Query is not accessible, make sure you added it to
\* schema' when this._query is not set.
QueryThrows(st, n) == ~st[n].hasQuery

(***************************************************************************)
(* Actions.                                                                *)
(***************************************************************************)
NoProbe == [kind |-> "none", target |-> "router", path |-> <<>>, search |-> <<>>]

NoAnswer == [done |-> FALSE, throws |-> FALSE, chain |-> <<>>, source |-> EmptySource]

\* The router after its construction, before the history is listened to.
RouterInit ==
    /\ listening = FALSE
    /\ created = 1
    /\ nextLocation = NoLocation
    /\ location = NoLocation
    /\ source = EmptySource
    /\ matchingSource = EmptySource
    /\ matched = [n \in Nodes |-> FALSE]
    /\ exact = [n \in Nodes |-> FALSE]
    /\ changing = <<>>
    /\ log = <<>>
    /\ last = NoLast
    /\ vetoed = NoVeto
    /\ redirected = NoRedirect
    /\ registered = RemovableCallbacks
    /\ fired = {}
    /\ routeState = NoRouteState

Init ==
    /\ RouterInit
    /\ \E t \in Targets : historyLocation = MakeLocation(1, t)
    /\ probe = NoProbe
    /\ answer = NoAnswer

\* The invocation awaits a beforeEnter hook of an entering match and its
\* location is still the one requested last.
InBeforeEnterHook(task) ==
    /\ task.phase = "beforeEnter"
    /\ task.enteringAndUpdatingMatchSet[task.idx] \notin Range(task.previousMatchSet)
    /\ task.nextLocation.id = nextLocation.id

\* The constructor's then(() => {history.listen(...); this._onLocationChange(history.location)})
Start ==
    /\ ~listening
    /\ listening' = TRUE
    /\ UNCHANGED redirected
    /\ SetWorld(OnLocationChange(World, historyLocation))

\* history.push(t) by the application (from a hook or from anywhere else).
Push(t) ==
    /\ listening
    /\ created < MaxEvents
    /\ UNCHANGED listening
    /\ redirected' =
          IF \E i \in 1..Len(changing) : InBeforeEnterHook(changing[i])
          THEN LET task == changing[CHOOSE i \in 1..Len(changing) :
                                       InBeforeEnterHook(changing[i])]
               IN [id |-> task.nextLocation.id,
                   match |-> task.enteringAndUpdatingMatchSet[task.idx],
                   to |-> MakeLocation(created + 1, t),
                   pre |-> task.start,
                   next |-> task.nextMatchSet]
          ELSE NoRedirect
    /\ SetWorld(HistoryChange([World EXCEPT !.vetoed = NoVeto], t))

\* The i-th chained invocation starts and runs to its first await.
Begin(i) ==
    /\ changing[i].phase = "queued"
    /\ ChainReady(i)
    /\ UNCHANGED <<listening, redirected>>
    /\ SetWorld(AsyncOnLocationChange(World, i))

\* The before hook the i-th invocation awaits settles.
BeforeHookReturn(i, result) ==
    /\ changing[i].phase \in {"beforeLeave", "beforeEnter"}
    /\ result = "false" => created < MaxEvents
    /\ UNCHANGED <<listening, redirected>>
    /\ LET task == changing[i]
           w == ResumeBefore(World, i, result)
       IN IF result = "false" /\ task.nextLocation.id = nextLocation.id
          THEN SetWorld([w EXCEPT !.vetoed =
                           [id |-> task.nextLocation.id,
                            kind |-> log[Len(log)].kind,
                            match |-> log[Len(log)].match,
                            pre |-> task.start,
                            log |-> w.log,
                            next |-> task.nextMatchSet,
                            reverts |-> vetoed.reverts + 1]])
          ELSE SetWorld(w)

\* The after hook the i-th invocation awaits settles.
AfterHookReturn(i, result) ==
    /\ changing[i].phase \in {"afterLeave", "afterEnter"}
    /\ UNCHANGED <<listening, redirected>>
    /\ SetWorld(ResumeAfter(World, i, result))

Next ==
    \/ Start
    \/ \E t \in Targets : Push(t)
    \/ \E i \in 1..Len(changing) : Begin(i)
    \/ \E i \in 1..Len(changing), result \in {"true", "false", "throw"} :
          BeforeHookReturn(i, result)
    \/ \E i \in 1..Len(changing), result \in {"ok", "throw"} :
          AfterHookReturn(i, result)

Spec == Init /\ [][Next]_vars

\* The removal callback returned by the registration of cb is called.
Deregister(cb) ==
    /\ cb \in registered
    /\ registered' = registered \ {cb}
    /\ UNCHANGED <<listening, created, historyLocation, nextLocation, location,
                   source, matchingSource, matched, exact, changing, log, last,
                   vetoed, redirected, fired, probe, answer, routeState>>

\* The router with an application that may remove its removable callbacks.
NextRegistry ==
    \/ Next
    \/ \E cb \in RemovableCallbacks : Deregister(cb)

SpecRegistry == Init /\ [][NextRegistry]_vars

\* The same router with hooks that always return (none throws or rejects).
NextReturning ==
    \/ Start
    \/ \E t \in Targets : Push(t)
    \/ \E i \in 1..Len(changing) : Begin(i)
    \/ \E i \in 1..Len(changing), result \in {"true", "false"} :
          BeforeHookReturn(i, result)
    \/ \E i \in 1..Len(changing) : AfterHookReturn(i, "ok")

SpecReturning == Init /\ [][NextReturning]_vars

\* The first chained invocation has not begun: Begin(1) is enabled.
BeginEnabled == changing # <<>> /\ changing[1].phase = "queued"

\* The step is the Begin step of the first chained invocation: it has left
\* the chain or it is no longer as it was queued (a push only appends to
\* the chain, and no hook is awaited by a queued invocation).
BeginStep ==
    /\ BeginEnabled
    /\ \/ changing' = <<>>
       \/ changing'[1] # changing[1]

\* The same, with the scheduling of the event loop: a chained invocation
\* that may begin does begin (weak fairness of Begin, written out with its
\* enabling condition), and a hook that is awaited returns. Nothing makes
\* the application push.
SpecQuiescent ==
    /\ Init
    /\ [][NextReturning]_vars
    /\ WF_vars(Start)
    /\ ([]<>(~BeginEnabled) \/ []<><<BeginStep>>_vars)
    /\ WF_vars(\E i \in 1..Len(changing), result \in {"true", "false"} :
                  BeforeHookReturn(i, result))
    /\ WF_vars(\E i \in 1..Len(changing) : AfterHookReturn(i, "ok"))

(***************************************************************************)
(* The same router driven through locations with group paths in the query  *)
(* (used, empty and unmatched ones) and with an unmatched primary path.    *)
(***************************************************************************)
GroupTargets ==
    { [pathname |-> <<"app", "about">>, search |-> <<>>],
      [pathname |-> <<"app", "about">>, search |-> << <<"_g1", <<"side">> >> >>],
      [pathname |-> <<"app", "about">>, search |-> << <<"_g1", <<>> >> >>],
      [pathname |-> <<"app", "about">>,
       search |-> << <<"_g1", <<"nowhere">> >>, <<"tab", <<"2">> >> >>],
      [pathname |-> <<"app", "nowhere">>, search |-> << <<"_g1", <<"side">> >> >>],
      [pathname |-> <<"app", "nowhere">>, search |-> <<>>] }

InitGroups ==
    /\ RouterInit
    /\ \E t \in GroupTargets : historyLocation = MakeLocation(1, t)
    /\ probe = NoProbe
    /\ answer = NoAnswer

NextGroups ==
    \/ Start
    \/ \E t \in GroupTargets : Push(t)
    \/ \E i \in 1..Len(changing) : Begin(i)
    \/ \E i \in 1..Len(changing), result \in {"true", "false", "throw"} :
          BeforeHookReturn(i, result)
    \/ \E i \in 1..Len(changing), result \in {"ok", "throw"} :
          AfterHookReturn(i, result)

SpecGroups == InitGroups /\ [][NextGroups]_vars

(***************************************************************************)
(* The matcher on its own: Router._match on a target and a path, and the   *)
(* matching part of _asyncOnLocationChange on a location, for all the      *)
(* paths and queries within the bounds.                                    *)
(***************************************************************************)
Segments == {"", "about", "parent", "nested", "lab", "popup", "b", "x", "y", "1", "a1"}

RECURSIVE PathsUpTo(_)
PathsUpTo(n) ==
    IF n = 0 THEN {<<>>}
    ELSE LET shorter == PathsUpTo(n - 1)
         IN shorter \cup {Append(q, g) : q \in shorter, g \in Segments}

\* The targets Router._match is called on: the router and the matches
\* that have children.
MatchTargets == {"router"} \cup {n \in Nodes : Schema[n].children # <<>>}

\* Primary paths (after the prefix) and group paths of the queries probed.
PrimaryPaths == {<<"">>, <<"about">>, <<"solo">>, <<"duo">>, <<"side">>,
                 <<"lab", "popup">>, <<"lab", "b", "y">>, <<"lab", "a1">>,
                 <<"nowhere">>}

GroupPaths == {<<>>, <<"side">>, <<"panel">>, <<"about">>, <<"lab", "popup">>}

\* The search strings with at most one _g1 and one _g2 parameter.
Searches ==
    {<<>>}
    \cup {<< <<"_g1", a>> >> : a \in GroupPaths}
    \cup {<< <<"_g2", b>> >> : b \in GroupPaths}
    \cup {<< <<"_g1", a>>, <<"_g2", b>> >> : a \in GroupPaths, b \in GroupPaths}

\* The location a probe of the matching stands for.
ProbeLocation(pr) == [id |-> 0, pathname |-> Prefix \o pr.path, search |-> pr.search]

InitMatcher ==
    /\ RouterInit
    /\ historyLocation = MakeLocation(1, DefaultLocation)
    /\ answer = NoAnswer
    /\ \/ \E t \in MatchTargets, q \in PathsUpTo(MaxPathLen) :
             probe = [kind |-> "match", target |-> t, path |-> q, search |-> <<>>]
       \/ \E q \in PrimaryPaths, sr \in Searches :
             probe = [kind |-> "resolve", target |-> "router", path |-> q, search |-> sr]

RouterUnchanged ==
    UNCHANGED <<listening, created, historyLocation, nextLocation, location, source,
                matchingSource, matched, exact, changing, log, last, vetoed,
                redirected, registered, fired, probe, routeState>>

\* this._match(target, path)
RunMatch ==
    /\ probe.kind = "match"
    /\ ~answer.done
    /\ answer' = [done |-> TRUE,
                  throws |-> MatchThrows(probe.target, probe.path),
                  chain |-> IF MatchThrows(probe.target, probe.path) THEN <<>>
                            ELSE Match(probe.target, probe.path),
                  source |-> EmptySource]
    /\ RouterUnchanged

\* The matching part of _asyncOnLocationChange on the probed location.
RunResolve ==
    /\ probe.kind = "resolve"
    /\ ~answer.done
    /\ answer' = [done |-> TRUE,
                  throws |-> MatchingThrows(ProbeLocation(probe)),
                  chain |-> <<>>,
                  source |-> IF MatchingThrows(ProbeLocation(probe)) THEN EmptySource
                             ELSE MatchingSourceOf(ProbeLocation(probe))]
    /\ RouterUnchanged

NextMatcher == RunMatch \/ RunResolve

SpecMatcher == InitMatcher /\ [][NextMatcher]_vars

(***************************************************************************)
(* The route matches of src/library on their own: every location change is *)
(* pushed down the tree.                                                   *)
(***************************************************************************)
\* The locations pushed: pathnames (no prefix) and searches.
QueryPaths == {<<"">>, <<"about">>, <<"parent">>, <<"parent", "nested">>,
               <<"lab", "1">>, <<"lab", "a1">>, <<"lab", "b", "y">>, <<"nowhere">>}

QuerySearches == {<<>>, << <<"id", <<"1">> >> >>, << <<"tab", <<"2">> >> >>,
                  << <<"id", <<"1">> >>, <<"tab", <<"2">> >> >>}

InitQuery ==
    /\ RouterInit
    /\ historyLocation = MakeLocation(1, [pathname |-> <<"">>, search |-> <<>>])
    /\ probe = NoProbe
    /\ answer = NoAnswer

\* The history reports a location (the first one, or one pushed later):
\* the router pushes it down the tree.
PushLocation(path, search) ==
    /\ created <= MaxEvents
    /\ IF listening
       THEN /\ created' = created + 1
            /\ historyLocation' = MakeLocation(created + 1,
                                               [pathname |-> path, search |-> search])
       ELSE /\ path = historyLocation.pathname
            /\ search = historyLocation.search
            /\ UNCHANGED <<created, historyLocation>>
    /\ listening' = TRUE
    /\ routeState' =
          PushRouteChange([nodes |-> routeState, thrown |-> FALSE], RouterChildren, 1,
                          FALSE, IF listening THEN path ELSE historyLocation.pathname,
                          EmptyDict,
                          QueryDictOf(IF listening THEN search
                                      ELSE historyLocation.search)).nodes
    /\ UNCHANGED <<nextLocation, location, source, matchingSource, matched, exact,
                   changing, log, last, vetoed, redirected, registered, fired, probe,
                   answer>>

NextQuery == \E path \in QueryPaths, search \in QuerySearches : PushLocation(path, search)

SpecQuery == InitQuery /\ [][NextQuery]_vars

(***************************************************************************)
(* Properties.                                                             *)
(***************************************************************************)
IsHook(e, kinds) == e.type = "hook" /\ e.kind \in kinds

Idle == changing = <<>>

\* Some invocation for the location object with this id is still chained.
Chained(id) == \E i \in 1..Len(changing) : changing[i].nextLocation.id = id

\* C1: after a beforeEnter hook returned false to a transition that started
\* with a committed location and was not stale, and until the next push (so
\* also once the engine is idle again), the committed snapshot, every
\* match's matched/exact flag and the committed location are those the
\* transition started with, the history is back at that location, and the
\* transition has run no afterEnter or afterLeave hook.
VetoByBeforeEnterKeepsCommitted ==
    (vetoed.kind = "beforeEnter" /\ vetoed.pre.location # NoLocation) =>
        /\ Committed(World) = vetoed.pre
        /\ ~Chained(vetoed.id)
        /\ isLocationEqual(historyLocation, vetoed.pre.location)
        /\ \A k \in 1..Len(vetoed.log) :
              /\ ~IsHook(vetoed.log[k], {"afterEnter", "afterLeave", "afterUpdate"})
              /\ vetoed.log[k].type # "commit"

\* C1 witness: a beforeEnter veto with a committed location, the revert
\* event handled (as a no-op) and the engine idle again.
VetoByBeforeEnterWitness ==
    /\ vetoed.kind = "beforeEnter"
    /\ vetoed.pre.location # NoLocation
    /\ Idle
    /\ last.outcome = "noop"
    /\ last.id = vetoed.id + 1

\* C2: after a beforeLeave hook returned false to a transition not stale, the
\* transition has ended without calling any beforeEnter/beforeUpdate hook,
\* the leaving match is still matched, no match of the target that was not
\* matched before is matched, and the committed location and the history
\* location are the location committed before.
VetoByBeforeLeaveReverts ==
    (vetoed.kind = "beforeLeave") =>
        /\ ~Chained(vetoed.id)
        /\ \A k \in 1..Len(vetoed.log) :
              ~IsHook(vetoed.log[k], {"beforeEnter", "beforeUpdate"})
        /\ matched[vetoed.match]
        /\ \A n \in Range(vetoed.next) : ~vetoed.pre.matched[n] => ~matched[n]
        /\ location = vetoed.pre.location
        /\ location # NoLocation
        /\ isLocationEqual(historyLocation, vetoed.pre.location)

\* C2 witness: a beforeLeave veto of a transition that had a match to enter,
\* the revert handled and the engine idle again.
VetoByBeforeLeaveWitness ==
    /\ vetoed.kind = "beforeLeave"
    /\ \E n \in Range(vetoed.next) : ~vetoed.pre.matched[n]
    /\ Idle
    /\ last.outcome = "noop"

HasHook(l, kind, n) ==
    \E k \in 1..Len(l) : l[k].type = "hook" /\ l[k].kind = kind /\ l[k].match = n

\* The invocation for the redirect target has not begun yet.
RedirectTargetQueued ==
    \E i \in 1..Len(changing) :
        changing[i].nextLocation.id = redirected.to.id /\ changing[i].phase = "queued"

\* C3: when a location was pushed while a beforeEnter hook of an entering
\* match of a current transition was running (and nothing was pushed since):
\* the original transition never commits; it ends as stale (or by the hook
\* throwing) with no commit, no revert and no after hook, and the committed
\* state stays what it was until the invocation for the pushed location
\* begins; that invocation is not discarded; it is a no-op only if the
\* pushed location equals the committed one, and when it runs to completion
\* the committed location and the matched matches are those of the pushed
\* location and beforeEnter and afterEnter have been called on each of its
\* matches that was not matched before.
RedirectFromBeforeEnter ==
    (redirected.id # 0) =>
        /\ location.id # redirected.id
        /\ RedirectTargetQueued => Committed(World) = redirected.pre
        /\ last.id = redirected.id =>
              /\ last.outcome \in {"stale", "throw"}
              /\ \A k \in 1..Len(last.log) :
                    /\ last.log[k].type \notin {"commit", "revert", "update", "onChange"}
                    /\ ~IsHook(last.log[k], {"afterEnter", "afterLeave", "afterUpdate"})
        /\ last.id = redirected.to.id =>
              /\ last.outcome \in {"done", "veto", "throw", "noop", "outOfPrefix"}
              /\ last.outcome = "noop" <=> SameAsCommitted(redirected.pre.location, redirected.to)
              /\ last.outcome = "outOfPrefix" => ~testPathPrefix(redirected.to.pathname, Prefix)
              /\ last.outcome = "done" =>
                    /\ location = redirected.to
                    /\ {n \in Nodes : matched[n]} =
                          Range(Keys(MatchingSourceOf(redirected.to).matchToMatchEntryMap))
                    /\ \A n \in Nodes :
                          (matched[n] /\ ~redirected.pre.matched[n]) =>
                              /\ HasHook(last.log, "beforeEnter", n)
                              /\ HasHook(last.log, "afterEnter", n)

\* C3 witness: the redirect of the test: the pushed location differs from
\* the original one, its transition completed with a match entered, and the
\* original target is not matched.
RedirectFromBeforeEnterWitness ==
    /\ redirected.id # 0
    /\ last.id = redirected.to.id
    /\ last.outcome = "done"
    /\ Idle
    /\ ~matched[redirected.match]
    /\ \E n \in Nodes : matched[n] /\ HasHook(last.log, "afterEnter", n)

BeforePhases == {"beforeLeave", "beforeEnter"}

AfterPhases == {"afterLeave", "afterEnter"}

\* C4: while a transition has not passed all its before hooks, the committed
\* snapshot, the committed location and every match's matched/exact flag
\* are what they were when the transition started; the same holds once it
\* has ended by a veto, as stale or by a before hook throwing, as long as no
\* later invocation has begun.
CommittedOnlyAtCommit ==
    /\ \A i \in 1..Len(changing) :
          changing[i].phase \in BeforePhases => Committed(World) = changing[i].start
    /\ ( /\ \/ last.outcome \in {"veto", "stale"}
            \/ last.outcome = "throw" /\ last.phase \in BeforePhases
         /\ \A i \in 1..Len(changing) : changing[i].phase = "queued" )
       => Committed(World) = last.pre

\* C4 witness: a transition away from a committed location is awaiting its
\* second before hook with its speculative snapshot published.
CommittedOnlyAtCommitWitness ==
    /\ changing # <<>>
    /\ changing[1].phase = "beforeEnter"
    /\ changing[1].reversedLeavingMatches # <<>>
    /\ location # NoLocation
    /\ matchingSource # source
    /\ source = changing[1].start.source

\* C5: at most one invocation is between its start and its end, and it is
\* the oldest one not yet settled: every later location event is still
\* queued; what has been published and which hooks have been called since
\* the last start are the running invocation's own.
Serialized ==
    /\ \A i \in 1..Len(changing) : changing[i].phase # "queued" => i = 1
    /\ Cardinality({i \in 1..Len(changing) : changing[i].phase # "queued"}) <= 1
    /\ \A i \in 1..Len(changing) :
          changing[i].phase # "queued" =>
              /\ matchingSource = MatchingSourceOf(changing[i].nextLocation)
              /\ log # <<>>
              /\ log[1].type = "publish"
              /\ log[1].to = changing[i].nextLocation
              /\ \A k \in 2..Len(log) : log[k].type # "publish"

\* C5 witness: a newer location event is queued while a committed
\* transition is still running its after hooks.
SerializedWitness ==
    /\ Len(changing) >= 2
    /\ changing[1].phase \in AfterPhases
    /\ changing[2].phase = "queued"
    /\ changing[Len(changing)].nextLocation = nextLocation

\* The queued invocation for the location object id begins in this step.
Begins(id) ==
    /\ \E i \in 1..Len(changing) :
          changing[i].nextLocation.id = id /\ changing[i].phase = "queued"
    /\ ~\E j \in 1..Len(changing') :
          changing'[j].nextLocation.id = id /\ changing'[j].phase = "queued"

\* The invocation for the location object id is no longer chained after this
\* step, and nothing the router or the history holds has changed in it.
ReturnsAtOnce(id, outcome) ==
    /\ ~\E j \in 1..Len(changing') : changing'[j].nextLocation.id = id
    /\ last'.id = id
    /\ last'.outcome = outcome
    /\ log' = <<>>
    /\ matchingSource' = matchingSource
    /\ source' = source
    /\ location' = location
    /\ matched' = matched
    /\ exact' = exact
    /\ historyLocation' = historyLocation
    /\ nextLocation' = nextLocation

\* C6: a queued location event that begins processing when its location is
\* no longer the one requested last returns at once: nothing is published,
\* no hook or callback is called, no committed state is touched; so an
\* invocation that gets past its entry is one for the location requested
\* last.
SupersededDiscarded ==
    [][\A id \in 1..MaxEvents + 1 :
          (Begins(id) /\ id # nextLocation.id) => ReturnsAtOnce(id, "superseded")]_vars

\* C6 witness: an invocation has been discarded as superseded after a
\* location was committed.
SupersededDiscardedWitness ==
    /\ last.outcome = "superseded"
    /\ location # NoLocation

\* C7: an invocation that begins for the location requested last returns at
\* once when that location has the pathname and search of the committed
\* location: no hook or callback is called, no flag, snapshot or location
\* changes.
SameLocationIsNoOp ==
    [][\A i \in 1..Len(changing) :
          LET loc == changing[i].nextLocation
          IN ( /\ Begins(loc.id)
               /\ loc.id = nextLocation.id
               /\ location # NoLocation
               /\ isLocationEqual(location, loc) )
             => ReturnsAtOnce(loc.id, "noop")]_vars

\* C7 witness: the committed location was pushed again (no veto in between)
\* and its invocation returned as a no-op.
SameLocationIsNoOpWitness ==
    /\ last.outcome = "noop"
    /\ vetoed = NoVeto
    /\ location # NoLocation
    /\ last.id > location.id

\* C8 (as claimed): whenever the engine is idle with no event queued, the
\* speculative snapshot equals the committed snapshot.
SpeculativeEqualsCommittedWhenIdle ==
    (listening /\ Idle) => matchingSource = source

BeforeKinds == {"beforeLeave", "beforeEnter", "beforeUpdate"}

AfterKinds == {"afterLeave", "afterEnter", "afterUpdate"}

\* The matches of the next matched set of a location.
NextSetOf(loc) == Range(Keys(MatchingSourceOf(loc).matchToMatchEntryMap))

\* C9: in a running transition, beforeLeave hooks are called only on the
\* leaving matches (committed and not in the next set), a descendant before
\* its ancestors, and every leaving match has had its beforeLeave call
\* before the first beforeEnter/beforeUpdate call; beforeEnter/beforeUpdate
\* hooks are called only on matches of the next set, an ancestor before its
\* descendants, beforeUpdate exactly on those matched when the transition
\* started; the hook awaited is the one called last, and once the before
\* phases are passed every match entered has had its beforeEnter call and
\* every match whose exactness changed its beforeUpdate call.
BeforeHookOrder ==
    \A i \in 1..Len(changing) :
        LET t == changing[i]
            pre == t.start.matched
            next == NextSetOf(t.nextLocation)
            nextMap == MatchingSourceOf(t.nextLocation).matchToMatchEntryMap
            leaving == {n \in Nodes : pre[n] /\ n \notin next}
        IN t.phase # "queued" =>
            /\ \A k \in 1..Len(log) :
                  /\ IsHook(log[k], {"beforeLeave"}) => log[k].match \in leaving
                  /\ IsHook(log[k], {"beforeUpdate"}) =>
                        log[k].match \in next /\ pre[log[k].match]
                  /\ IsHook(log[k], {"beforeEnter"}) =>
                        log[k].match \in next /\ ~pre[log[k].match]
            /\ \A a, b \in 1..Len(log) :
                  a < b =>
                      /\ IsHook(log[a], {"beforeEnter", "beforeUpdate"}) =>
                            ~IsHook(log[b], {"beforeLeave"})
                      /\ (IsHook(log[a], {"beforeLeave"}) /\ IsHook(log[b], {"beforeLeave"})) =>
                            /\ log[a].match # log[b].match
                            /\ log[a].match \notin Ancestors(log[b].match)
                      /\ ( /\ IsHook(log[a], {"beforeEnter", "beforeUpdate"})
                           /\ IsHook(log[b], {"beforeEnter", "beforeUpdate"}) ) =>
                            /\ log[a].match # log[b].match
                            /\ log[b].match \notin Ancestors(log[a].match)
            /\ ( \/ t.phase \in AfterPhases
                 \/ \E k \in 1..Len(log) : IsHook(log[k], {"beforeEnter", "beforeUpdate"}) )
               => \A n \in leaving : HasHook(log, "beforeLeave", n)
            /\ t.phase \in BeforePhases => IsHook(log[Len(log)], BeforeKinds)
            /\ t.phase \in AfterPhases =>
                  \A n \in next :
                      /\ ~pre[n] => HasHook(log, "beforeEnter", n)
                      /\ (pre[n] /\ t.start.exact[n] # EntryOf(nextMap, n).exact) =>
                            HasHook(log, "beforeUpdate", n)

\* C9 witness: a transition leaving a chain of two matches has called both
\* beforeLeave hooks and awaits the beforeEnter hook of its target.
BeforeHookOrderWitness ==
    /\ changing # <<>>
    /\ changing[1].phase = "beforeEnter"
    /\ Len(changing[1].reversedLeavingMatches) = 2
    /\ HasHook(log, "beforeLeave", "nested")
    /\ HasHook(log, "beforeLeave", "parent")
    /\ IsHook(log[Len(log)], {"beforeEnter"})

\* The transition the log belongs to: the running invocation, else the one
\* settled last.
LogOwner ==
    IF changing # <<>> /\ changing[1].phase # "queued"
    THEN [id |-> changing[1].nextLocation.id, pre |-> changing[1].start]
    ELSE [id |-> last.id, pre |-> last.pre]

Count(l, type) == Cardinality({k \in 1..Len(l) : l[k].type = type})

\* C10: in the log of a transition, the commit comes after every before hook
\* and before every update and after hook; with the commit the committed
\* location and snapshot are the new ones; the updates deactivate exactly
\* the leaving matches, a descendant before its ancestors, and then
\* activate exactly the next set, an ancestor before its descendants; all
\* updates precede the after hooks; afterLeave calls come descendant first,
\* then afterEnter/afterUpdate calls ancestor first (afterUpdate exactly on
\* matches matched before); onChange is the last entry, called with the
\* location committed before and the new one; a transition that runs to
\* its end has called it exactly once, after an after hook on every leaving
\* and entering match, and an invocation that ended as a veto, stale,
\* superseded, a no-op, out of the prefix or by a throw has not called it.
CommitAndAfterOrder ==
    LET pre == LogOwner.pre
        committing == \E k \in 1..Len(log) : log[k].type = "commit"
        next == {n \in Nodes : HasKey(matchingSource.matchToMatchEntryMap, n)}
        leaving == {n \in Nodes : pre.matched[n] /\ n \notin next}
    IN /\ \A a, b \in 1..Len(log) :
             a < b =>
                 /\ log[b].type = "commit" =>
                       log[a].type = "publish" \/ IsHook(log[a], BeforeKinds)
                 /\ log[a].type = "commit" =>
                       log[b].type \in {"update", "onChange"} \/ IsHook(log[b], AfterKinds)
                 /\ IsHook(log[a], AfterKinds) => log[b].type # "update"
                 /\ (log[a].type = "update" /\ log[b].type = "update") =>
                       /\ log[a].kind = "on" => log[b].kind = "on"
                       /\ log[a].match # log[b].match
                       /\ (log[a].kind = "off" /\ log[b].kind = "off") =>
                             log[a].match \notin Ancestors(log[b].match)
                       /\ (log[a].kind = "on" /\ log[b].kind = "on") =>
                             log[b].match \notin Ancestors(log[a].match)
                 /\ IsHook(log[a], {"afterEnter", "afterUpdate"}) =>
                       ~IsHook(log[b], {"afterLeave"})
                 /\ (IsHook(log[a], {"afterLeave"}) /\ IsHook(log[b], {"afterLeave"})) =>
                       /\ log[a].match # log[b].match
                       /\ log[a].match \notin Ancestors(log[b].match)
                 /\ ( /\ IsHook(log[a], {"afterEnter", "afterUpdate"})
                      /\ IsHook(log[b], {"afterEnter", "afterUpdate"}) ) =>
                       /\ log[a].match # log[b].match
                       /\ log[b].match \notin Ancestors(log[a].match)
                 /\ log[a].type # "onChange"
       /\ \A k \in 1..Len(log) :
             /\ (IsHook(log[k], AfterKinds) \/ log[k].type \in {"update", "onChange"})
                   => committing
             /\ log[k].type = "commit" =>
                   /\ log[k].to.id = LogOwner.id
                   /\ location = log[k].to
                   /\ source = MatchingSourceOf(log[k].to)
             /\ log[k].type = "update" =>
                   /\ log[k].kind = "off" => log[k].match \in leaving
                   /\ log[k].kind = "on" => log[k].match \in next
             /\ IsHook(log[k], {"afterLeave"}) => log[k].match \in leaving
             /\ IsHook(log[k], {"afterUpdate"}) =>
                   log[k].match \in next /\ pre.matched[log[k].match]
             /\ IsHook(log[k], {"afterEnter"}) =>
                   log[k].match \in next /\ ~pre.matched[log[k].match]
             /\ log[k].type = "onChange" =>
                   /\ log[k].from = pre.location
                   /\ log[k].to = location
       /\ (committing /\ \E k \in 1..Len(log) :
                            IsHook(log[k], AfterKinds) \/ log[k].type = "onChange")
          => /\ \A n \in leaving :
                   \E k \in 1..Len(log) : log[k].type = "update" /\ log[k].kind = "off"
                                          /\ log[k].match = n
             /\ \A n \in next :
                   \E k \in 1..Len(log) : log[k].type = "update" /\ log[k].kind = "on"
                                          /\ log[k].match = n
       /\ last.outcome = "done" =>
             /\ Count(last.log, "onChange") = 1
             /\ last.log[Len(last.log)].type = "onChange"
             /\ last.log[Len(last.log)].from = last.pre.location
             /\ last.log[Len(last.log)].to.id = last.id
             /\ \A n \in Nodes :
                   (last.pre.matched[n] /\ n \notin NextSetOf(last.log[Len(last.log)].to))
                       => HasHook(last.log, "afterLeave", n)
             /\ \A n \in NextSetOf(last.log[Len(last.log)].to) :
                   ~last.pre.matched[n] => HasHook(last.log, "afterEnter", n)
       /\ last.outcome # "done" => Count(last.log, "onChange") = 0

\* C10 witness: a transition from a committed chain of two matches to
\* another match has run to its end: both afterLeave hooks, the afterEnter
\* hook and onChange were called.
CommitAndAfterOrderWitness ==
    /\ last.outcome = "done"
    /\ last.log = log
    /\ last.pre.location # NoLocation
    /\ HasHook(log, "afterLeave", "nested")
    /\ HasHook(log, "afterLeave", "parent")
    /\ \E n \in Nodes : HasHook(log, "afterEnter", n)
    /\ log[Len(log)].type = "onChange"

\* The matches committed at pre that are in the next set of loc with the
\* same path segments and the same exactness.
UntouchedOf(pre, loc) ==
    {n \in Nodes :
        /\ pre.matched[n]
        /\ n \in NextSetOf(loc)
        /\ PathSegments(n, pre.source) = PathSegments(n, MatchingSourceOf(loc))
        /\ pre.exact[n] = NextExact(n, MatchingSourceOf(loc))}

NoHookOn(l, n) == \A k \in 1..Len(l) : l[k].type = "hook" => l[k].match # n

\* C11: a match that is committed and in the next set with the same path
\* segments and exactness is neither among the leaving matches nor among the
\* entering-or-updating matches of the transition, and the transition calls
\* no hook of any kind on it (neither while it runs nor by its end).
UntouchedNodesNoHook ==
    /\ \A i \in 1..Len(changing) :
          LET t == changing[i]
          IN t.phase # "queued" =>
                \A n \in UntouchedOf(t.start, t.nextLocation) :
                    /\ n \notin Range(t.reversedLeavingMatches)
                    /\ n \notin Range(t.enteringAndUpdatingMatchSet)
                    /\ NoHookOn(log, n)
    /\ (last.log # <<>> /\ last.log[1].type = "publish") =>
          \A n \in UntouchedOf(last.pre, last.log[1].to) : NoHookOn(last.log, n)

\* C11 witness: a transition that kept a committed match as it was and
\* entered another match has run to its end.
UntouchedNodesNoHookWitness ==
    /\ last.outcome = "done"
    /\ last.log # <<>>
    /\ last.log[1].type = "publish"
    /\ UntouchedOf(last.pre, last.log[1].to) # {}
    /\ \E n \in Nodes : HasHook(last.log, "afterEnter", n)

CountHook(l, kind, n) ==
    Cardinality({k \in 1..Len(l) : l[k].type = "hook" /\ l[k].kind = kind
                                     /\ l[k].match = n})

ParentNestedPath == <<"app", "parent", "nested">>

ParentPath == <<"app", "parent">>

\* The target of the transition settled last (the location it published).
LastTarget == IF last.log # <<>> /\ last.log[1].type = "publish"
              THEN last.log[1].to ELSE NoLocation

\* C12: parent is declared $exact with the child nested. A completed
\* transition to /parent/nested that started with parent not matched has
\* called parent's beforeEnter once and not its beforeUpdate; a completed
\* transition from /parent/nested to /parent (parent stays matched, its
\* exactness goes from false to true) has called parent's beforeUpdate
\* exactly once and not its beforeEnter.
UpdateOnExactChange ==
    LET first == /\ last.outcome = "done"
                 /\ LastTarget.pathname = ParentNestedPath
                 /\ ~last.pre.matched["parent"]
        second == /\ last.outcome = "done"
                  /\ LastTarget.pathname = ParentPath
                  /\ last.pre.location # NoLocation
                  /\ last.pre.location.pathname = ParentNestedPath
    IN /\ first => /\ CountHook(last.log, "beforeEnter", "parent") = 1
                   /\ CountHook(last.log, "beforeUpdate", "parent") = 0
       /\ second => /\ last.pre.matched["parent"]
                    /\ ~last.pre.exact["parent"]
                    /\ NextExact("parent", MatchingSourceOf(LastTarget))
                    /\ CountHook(last.log, "beforeUpdate", "parent") = 1
                    /\ CountHook(last.log, "beforeEnter", "parent") = 0

\* C12 witness: the navigation from /parent/nested to /parent has completed
\* and parent is now exactly matched.
UpdateOnExactChangeWitness ==
    /\ last.outcome = "done"
    /\ LastTarget.pathname = ParentPath
    /\ last.pre.location.pathname = ParentNestedPath
    /\ Idle
    /\ exact["parent"]
    /\ HasHook(last.log, "beforeUpdate", "parent")

FiredOf(f, cb) == {x \in f : x.callback = cb}

\* C13: a removable callback that has been deregistered stays deregistered
\* and is not invoked in any later step, so not during or after any
\* transition that starts later either; it has been invoked only by
\* transitions that entered its match; and the other callback of the same
\* match and kind still fires: every completed transition that entered the
\* match has called the afterEnter hook on it.
DeregisteredNeverFires ==
    /\ [][\A cb \in RemovableCallbacks :
             cb \notin registered =>
                 /\ cb \notin registered'
                 /\ FiredOf(fired', cb) = FiredOf(fired, cb)]_vars
    /\ [](\A x \in fired : x.id <= created)
    /\ [](\A cb \in RemovableCallbacks :
             (last.outcome = "done" /\ CallbackHook(cb).match \in NextSetOf(LastTarget)
                 /\ ~last.pre.matched[CallbackHook(cb).match])
             => HasHook(last.log, CallbackHook(cb).kind, CallbackHook(cb).match))

\* C13 witness: with the removable callback deregistered, a transition has
\* entered about and completed; the afterEnter hook was called on about
\* and the removed callback was not invoked by that transition.
DeregisteredNeverFiresWitness ==
    /\ "canceledAboutAfterEnter" \notin registered
    /\ last.outcome = "done"
    /\ ~last.pre.matched["about"]
    /\ HasHook(last.log, "afterEnter", "about")
    /\ \A x \in fired : x.id # last.id

\* C14: an invocation that begins for the location requested last, when the
\* pathname of that location is not under the prefix, calls the leave
\* callback once with that location and does nothing else: it returns, no
\* hook or change callback is called, no revert is issued (the history
\* makes no new location), and the committed snapshot, the committed
\* location, the speculative snapshot and all match flags are unchanged.
OutOfPrefixOnlyLeaves ==
    [][\A i \in 1..Len(changing) :
          LET loc == changing[i].nextLocation
          IN ( /\ Begins(loc.id)
               /\ loc.id = nextLocation.id
               /\ ~IsPrefixOf(Prefix, loc.pathname) )
             => /\ log' = << Event("onLeave", "", "", NoLocation, loc) >>
                /\ ~\E j \in 1..Len(changing') : changing'[j].nextLocation.id = loc.id
                /\ last'.id = loc.id
                /\ last'.outcome = "outOfPrefix"
                /\ last'.log = log'
                /\ Len(changing') = Len(changing) - 1
                /\ created' = created
                /\ historyLocation' = historyLocation
                /\ nextLocation' = nextLocation
                /\ matchingSource' = matchingSource
                /\ source' = source
                /\ location' = location
                /\ matched' = matched
                /\ exact' = exact
                /\ fired' = fired]_vars

\* C14 witness: with a location committed, a location out of the prefix has
\* been handled: the leave callback was called and the router is idle.
OutOfPrefixOnlyLeavesWitness ==
    /\ last.outcome = "outOfPrefix"
    /\ location # NoLocation
    /\ Idle
    /\ log = << Event("onLeave", "", "", NoLocation, historyLocation) >>
    /\ ~IsPrefixOf(Prefix, historyLocation.pathname)

\* C15: in the step in which a before hook returns false to a transition
\* that is not stale, the router calls history.replace exactly once, with
\* the committed location if there is one and with the default location
\* otherwise; the history makes that its location and the resulting
\* location event is queued as a new invocation, not yet begun; the step
\* calls no hook and leaves the committed state alone; and a revert is
\* never issued by anything but a veto.
RevertTargetOnVeto ==
    /\ [][(vetoed' # vetoed /\ vetoed'.id # 0) =>
             LET target == IF location # NoLocation THEN location ELSE DefaultLocation
             IN /\ log' = Append(log, Event("revert", "replace", "", NoLocation,
                                             MakeLocation(0, target)))
                /\ created' = created + 1
                /\ historyLocation' = MakeLocation(created + 1, target)
                /\ nextLocation' = historyLocation'
                /\ Len(changing') = Len(changing)
                /\ changing'[Len(changing')] = QueuedTask(historyLocation')
                /\ \A j \in 1..Len(changing') : changing'[j].phase = "queued"
                /\ last'.outcome = "veto"
                /\ last'.id = vetoed'.id
                /\ Count(last'.log, "revert") = 1
                /\ location' = location
                /\ source' = source
                /\ matched' = matched
                /\ exact' = exact]_vars
    /\ [](\A k \in 1..Len(log) :
             log[k].type = "revert" =>
                 /\ k = Len(log)
                 /\ log[k].kind = "replace"
                 /\ last.outcome = "veto"
                 /\ last.log = log)

\* C15 witness: the first transition of the router was vetoed with nothing
\* committed: the history has been sent to the default location.
RevertTargetOnVetoWitness ==
    /\ vetoed.id # 0
    /\ vetoed.pre.location = NoLocation
    /\ last.outcome = "veto"
    /\ log # <<>>
    /\ log[Len(log)].type = "revert"
    /\ isLocationEqual(historyLocation, DefaultLocation)
    /\ ~isLocationEqual(log[1].to, DefaultLocation)

\* The committed state after a complete commit of loc.
FullyCommitted(loc) ==
    [location |-> loc,
     source |-> MatchingSourceOf(loc),
     matched |-> [n \in Nodes |-> n \in NextSetOf(loc)],
     exact |-> [n \in Nodes |-> NextExact(n, MatchingSourceOf(loc))]]

\* No invocation has begun since the last one settled.
NothingBegunSince == \A i \in 1..Len(changing) : changing[i].phase = "queued"

\* C16: when a hook has thrown or rejected, its invocation has ended (the
\* promise chained for it is settled); it called nothing after the throw;
\* the committed snapshot, the committed location and the match flags are
\* all those of the start of the transition when a before hook threw, and
\* all those of the complete commit of its location when an after hook
\* threw; and the chain goes on: the events that arrived behind it are
\* still chained in their order, and only the first of them may have begun.
HookFailureAbandons ==
    last.outcome = "throw" =>
        /\ ~Chained(last.id)
        /\ last.phase \in BeforePhases \cup AfterPhases
        /\ last.log # <<>>
        /\ last.log[Len(last.log)].type = "hook"
        /\ last.phase \in BeforePhases =>
              /\ IsHook(last.log[Len(last.log)], BeforeKinds)
              /\ Count(last.log, "commit") = 0
              /\ NothingBegunSince => Committed(World) = last.pre
        /\ last.phase \in AfterPhases =>
              /\ IsHook(last.log[Len(last.log)], AfterKinds)
              /\ Count(last.log, "commit") = 1
              /\ Count(last.log, "onChange") = 0
              /\ NothingBegunSince => Committed(World) = FullyCommitted(LastTarget)
        /\ \A a, b \in 1..Len(changing) :
              a < b => /\ last.id < changing[a].nextLocation.id
                       /\ changing[a].nextLocation.id < changing[b].nextLocation.id
        /\ \A a \in 2..Len(changing) : changing[a].phase = "queued"

\* C16 witness: an after hook threw after a commit that changed the matched
\* set, and the event that arrived behind it is being processed: it awaits
\* a hook of its own.
HookFailureAbandonsWitness ==
    /\ last.outcome = "throw"
    /\ last.phase \in AfterPhases
    /\ last.pre.location # NoLocation
    /\ changing # <<>>
    /\ changing[1].phase \in BeforePhases
    /\ changing[1].start = FullyCommitted(LastTarget)

\* The pattern of the match n can match the first segment of the path.
CanMatchSegment(n, path) ==
    ~SegmentThrows(n, path) /\ SegmentMatch(n, path).current # Undefined

\* The match n matches the first segment of the path and the chain can be
\* completed through it: the path ends there, or its subtree matches the rest.
Viable(n, path) ==
    LET r == RouteMatchMatch(n, path)
    IN r.matched /\ (r.exactlyMatched \/ Match(n, r.rest) # <<>>)

IndexOf(seq, e) == CHOOSE k \in 1..Len(seq) : seq[k] = e

MatchAnswered == answer.done /\ probe.kind = "match" /\ ~answer.throws

\* C17 (as claimed): when the matcher returns a chain, no sibling declared
\* before the first match of the chain can match the next path segment.
FirstSiblingAlwaysWins ==
    (MatchAnswered /\ answer.chain # <<>>) =>
        LET children == Children(probe.target)
            k == IndexOf(children, answer.chain[1].match)
        IN \A j \in 1..(k - 1) : ~CanMatchSegment(children[j], probe.path)

\* C17 (amended): the chain returned goes through the earliest declared
\* sibling that matches the next segment and through which the chain can be
\* completed, whatever the patterns are; a sibling declared earlier that
\* matches the segment is passed over exactly when the path does not end
\* at it (or it may not end a chain) and its subtree does not match the rest;
\* no chain is returned only if no sibling is viable.
FirstViableSiblingWins ==
    MatchAnswered =>
        LET children == Children(probe.target)
        IN /\ answer.chain = <<>> => \A j \in 1..Len(children) : ~Viable(children[j], probe.path)
           /\ answer.chain # <<>> =>
                 LET k == IndexOf(children, answer.chain[1].match)
                 IN /\ Viable(children[k], probe.path)
                    /\ \A j \in 1..(k - 1) : ~Viable(children[j], probe.path)

\* C17 witness: the matcher returned a chain through a literal sibling
\* declared after a wildcard sibling that matches the same segment.
FirstViableSiblingWinsWitness ==
    /\ MatchAnswered
    /\ answer.chain # <<>>
    /\ LET children == Children(probe.target)
           k == IndexOf(children, answer.chain[1].match)
       IN /\ PatternKind(children[k]) = "string"
          /\ \E j \in 1..(k - 1) : /\ PatternKind(children[j]) = "star"
                                   /\ CanMatchSegment(children[j], probe.path)

ResolveAnswered == answer.done /\ probe.kind = "resolve" /\ ~answer.throws

\* The group slots of the probed location: the primary path and the group
\* paths of its query, as [path, group].
SlotsOf(pr) ==
    PathInfos(ProbeLocation(pr).pathname, QueryDictOf(ProbeLocation(pr).search))

\* The chain matched for the path of a slot has a leaf whose group is the
\* group of the slot.
LeafGroupFits(slot) ==
    LET chain == Match("router", slot.path)
    IN chain # <<>> /\ Group(chain[Len(chain)].match) = slot.group

\* C18 (as claimed): every match of the next matched set belongs to the
\* chain of a slot whose group is the group of the leaf of that chain; a
\* chain whose leaf has another group than its slot contributes nothing.
GroupSlotAcceptsByLeaf ==
    ResolveAnswered =>
        \A m \in Range(Keys(answer.source.matchToMatchEntryMap)) :
            \E k \in 1..Len(SlotsOf(probe)) :
                LET slot == SlotsOf(probe)[k]
                IN /\ LeafGroupFits(slot)
                   /\ m \in Range(Keys(Match("router", slot.path)))

\* The chain resolved for a slot: the chain matched for its path when the
\* router accepts it for the slot, else the empty chain.
ResolvedChain(slot) ==
    LET chain == Match("router", slot.path)
    IN IF chain # <<>> /\ Group(chain[1].match) = slot.group THEN chain ELSE <<>>

\* C19: when the primary path resolves to a chain, that chain is in the next
\* matched set, and the chain resolved for a group slot is in it exactly
\* when the primary match has no parallel whitelist, or the group is in
\* whitelist.groups, or the first match of the chain is in
\* whitelist.matches; a chain that is excluded leaves none of its matches
\* in the set.
GroupWhitelist ==
    LET slots == SlotsOf(probe)
        primary == ResolvedChain(slots[1])
        whitelist == Schema[primary[1].match].parallel
        next == Range(Keys(answer.source.matchToMatchEntryMap))
    IN (ResolveAnswered /\ primary # <<>>) =>
          /\ Range(Keys(primary)) \subseteq next
          /\ \A k \in 2..Len(slots) :
                LET chain == ResolvedChain(slots[k])
                    allowed == \/ ~whitelist.has
                               \/ slots[k].group \in whitelist.groups
                               \/ chain[1].match \in whitelist.matches
                IN chain # <<>> =>
                      /\ allowed => Range(Keys(chain)) \subseteq next
                      /\ ~allowed => Range(Keys(chain)) \cap next = {}
          /\ \A m \in next :
                \E k \in 1..Len(slots) : m \in Range(Keys(ResolvedChain(slots[k])))

\* C19 witness: the primary match solo has parallel.groups = [g1]; the
\* query resolves a g1 chain and a g2 chain; side is kept and panel is not.
GroupWhitelistWitness ==
    /\ ResolveAnswered
    /\ probe.path = <<"solo">>
    /\ Len(SlotsOf(probe)) = 3
    /\ ResolvedChain(SlotsOf(probe)[2]) # <<>>
    /\ ResolvedChain(SlotsOf(probe)[3]) # <<>>
    /\ HasKey(answer.source.matchToMatchEntryMap, "solo")
    /\ HasKey(answer.source.matchToMatchEntryMap, "side")
    /\ ~HasKey(answer.source.matchToMatchEntryMap, "panel")

\* C20 (as claimed): a misconfigured match pattern makes the construction of
\* the route tree fail; with a tree that was built, no call of the matcher
\* and no matching of a location ends by an error of a pattern.
ConfigErrorsAtBuildOnly ==
    answer.done => (BuildThrows \/ ~answer.throws)

\* C21 (as claimed): a match whose pattern is '*' takes exactly one segment
\* of the path and that segment is not empty: no chain the matcher returns
\* has an entry of a '*' match with the empty segment.
StarSegmentNonEmpty ==
    MatchAnswered =>
        \A j \in 1..Len(answer.chain) :
            PatternKind(answer.chain[j].match) = "star" =>
                answer.chain[j].segment # ""

\* C22 (as claimed): in every state, before the first location change and
\* after any number of them, the $query getter of a match that declares no
\* query keys throws.
QueryOfUndeclaredThrows ==
    \A n \in Nodes : ~Schema[n].hasQuery => QueryThrows(routeState, n)

\* C23: every chain the matcher returns is a path of the tree from a child
\* of the target downwards: its first entry is a child of the target, each
\* later entry is a child of the entry before it (so no ancestor between
\* the target and the deepest match is left out), its last entry is
\* flagged exact and no other entry is; and the matcher returns no chain
\* when no child of the target matches the first segment of the path.
ChainShape ==
    MatchAnswered =>
        LET chain == answer.chain
        IN /\ chain # <<>> =>
                 /\ chain[1].match \in Range(Children(probe.target))
                 /\ \A j \in 2..Len(chain) :
                       chain[j].match \in Range(Children(chain[j - 1].match))
                 /\ \A j \in 1..Len(chain) : chain[j].exact <=> j = Len(chain)
           /\ (\A n \in Range(Children(probe.target)) :
                  ~RouteMatchMatch(n, probe.path).matched) => chain = <<>>

\* C23 witness: the matcher called on the router returned a chain of three
\* matches.
ChainShapeWitness ==
    /\ MatchAnswered
    /\ probe.target = "router"
    /\ Len(answer.chain) = 3

\* C24: when the before hook awaited by a transition settles, with whatever
\* result, after a newer location has been requested, the transition ends
\* there: it is abandoned as stale (or by the exception of the hook),
\* history.replace is not called (the history keeps its location, no
\* Location object is made, nothing is queued and the log has no revert),
\* the newer location stays the one requested last, and the committed
\* state is left alone.
StaleVetoIgnored ==
    [][(/\ changing # <<>>
        /\ changing[1].phase \in BeforePhases
        /\ IsNextLocationOutDated(changing[1].nextLocation, nextLocation)
        /\ \/ changing' = <<>>
           \/ changing'[1].nextLocation.id # changing[1].nextLocation.id) =>
           /\ changing' = Tail(changing)
           /\ last'.id = changing[1].nextLocation.id
           /\ last'.outcome \in {"stale", "throw"}
           /\ Count(last'.log, "revert") = 0
           /\ created' = created
           /\ historyLocation' = historyLocation
           /\ nextLocation' = nextLocation
           /\ nextLocation'.id > last'.id
           /\ location' = location
           /\ source' = source
           /\ matched' = matched
           /\ exact' = exact]_vars

\* C24 witness: a transition that awaited a beforeEnter hook was abandoned
\* as stale, and the history is still at the newer location, whose
\* invocation has not begun yet.
StaleVetoIgnoredWitness ==
    /\ last.outcome = "stale"
    /\ last.phase = "beforeEnter"
    /\ historyLocation.id > last.id
    /\ nextLocation = historyLocation
    /\ changing # <<>>
    /\ changing[1].phase = "queued"

\* C25: in every state, for every group of the router (this._groups),
\* neither the speculative nor the committed query dictionary has the key
\* of the group, whatever the value of that key in the location was: a path
\* that resolved to a match of the group, the empty string, or a path that
\* matched nothing.
GroupKeysStripped ==
    \A i \in 1..Len(Groups) :
        /\ GroupKey(Groups[i]) \notin DOMAIN source.queryDict
        /\ GroupKey(Groups[i]) \notin DOMAIN matchingSource.queryDict

\* C25 witness: the committed location has a _g1 parameter with the empty
\* string as its value, and its snapshot is the committed one.
GroupKeysStrippedWitness ==
    /\ location # NoLocation
    /\ location.search = << <<"_g1", <<>> >> >>
    /\ source = MatchingSourceOf(location)
    /\ Idle

\* The log has a call of a hook of one of the kinds on the match m.
HookCalled(l, kinds, m) ==
    \E k \in 1..Len(l) : IsHook(l[k], kinds) /\ l[k].match = m

\* C26: with hooks that return, a transition that has committed is never
\* cut short, whether or not a newer location has been requested: every
\* step that moves it on from an after hook either leaves it at a later
\* after hook, with its log extended, or ends it as done, and then its log
\* has the afterLeave call of every leaving match, the afterEnter or
\* afterUpdate call of every entering or updating match and ends by the
\* change callback. While it is in its after hooks every other invocation
\* chained, the one for the newer location included, has not begun.
PostCommitNotCancellable ==
    /\ [][(/\ changing # <<>>
           /\ changing[1].phase \in AfterPhases
           /\ \/ changing' = <<>>
              \/ changing'[1] # changing[1]) =>
              LET task == changing[1]
              IN \/ /\ changing' # <<>>
                    /\ changing'[1].nextLocation = task.nextLocation
                    /\ changing'[1].phase \in AfterPhases
                    /\ Tail(changing') = Tail(changing)
                    /\ IsPrefixOf(log, log')
                    /\ last' = last
                 \/ /\ changing' = Tail(changing)
                    /\ last'.id = task.nextLocation.id
                    /\ last'.outcome = "done"
                    /\ last'.log = log'
                    /\ Count(log', "commit") = 1
                    /\ log'[Len(log')].type = "onChange"
                    /\ \A m \in Range(task.reversedLeavingMatches) :
                          HookCalled(log', {"afterLeave"}, m)
                    /\ \A m \in Range(task.enteringAndUpdatingMatchSet) :
                          HookCalled(log', {"afterEnter", "afterUpdate"}, m)]_vars
    /\ [](\A i \in 1..Len(changing) :
             changing[i].phase \in AfterPhases =>
                 /\ i = 1
                 /\ Count(log, "commit") = 1
                 /\ \A j \in 2..Len(changing) : changing[j].phase = "queued")

\* C26 witness: a transition ended as done, after at least one after hook,
\* although a newer location had been requested while its after hooks ran:
\* the invocation for that location is chained and has not begun.
PostCommitNotCancellableWitness ==
    /\ last.outcome = "done"
    /\ \E k \in 1..Len(last.log) : IsHook(last.log[k], AfterKinds)
    /\ changing # <<>>
    /\ changing[1].phase = "queued"
    /\ changing[1].nextLocation.id > last.id
    /\ nextLocation.id > last.id

PrimaryUnmatched(loc) ==
    LET routeMatchEntries == Match("router", PathWithoutPrefix(loc.pathname))
    IN \/ routeMatchEntries = <<>>
       \/ Group(routeMatchEntries[1].match) # Undefined

\* The log is the one of a transition to a location whose primary path has
\* no accepted chain.
ToUnmatched(l) ==
    /\ l # <<>>
    /\ l[1].type = "publish"
    /\ PrimaryUnmatched(l[1].to)

\* C28: a transition to a location whose primary path has no accepted chain
\* has an empty next match set, whatever the group paths of the query match:
\* it enters and updates nothing and every match of the committed snapshot
\* leaves. Its commit step makes the location the committed one, the
\* committed snapshot empty and every match unmatched, and when it ends as
\* done the leave hooks of every match that was matched have been called and
\* no revert was made.
UnmatchedPrimaryCommits ==
    /\ [](\A i \in 1..Len(changing) :
             (changing[i].phase # "queued"
                  /\ PrimaryUnmatched(changing[i].nextLocation)) =>
                 /\ matchingSource.matchToMatchEntryMap = <<>>
                 /\ changing[i].nextMatchSet = <<>>
                 /\ changing[i].enteringAndUpdatingMatchSet = <<>>
                 /\ Range(changing[i].reversedLeavingMatches)
                        = Range(changing[i].previousMatchSet))
    /\ [][(/\ ToUnmatched(log')
           /\ Count(log', "commit") = 1
           /\ (~ToUnmatched(log) \/ log[1] # log'[1] \/ Count(log, "commit") = 0)) =>
              /\ location' = log'[1].to
              /\ source'.matchToMatchEntryMap = <<>>
              /\ \A n \in Nodes : ~matched'[n] /\ ~exact'[n]
              /\ Count(log', "revert") = 0]_vars
    /\ []((last.outcome = "done" /\ ToUnmatched(last.log)) =>
             /\ Count(last.log, "commit") = 1
             /\ Count(last.log, "revert") = 0
             /\ \A n \in Nodes :
                   /\ last.pre.matched[n] =>
                          /\ HookCalled(last.log, {"beforeLeave"}, n)
                          /\ HookCalled(last.log, {"afterLeave"}, n)
                   /\ ~HookCalled(last.log, {"beforeEnter", "beforeUpdate",
                                             "afterEnter", "afterUpdate"}, n))

\* C28 witness: a transition to a location with an unmatched primary path
\* and a group path that matches has ended as done: matches were matched
\* before it, the location is the committed one and no match is matched.
UnmatchedPrimaryCommitsWitness ==
    /\ last.outcome = "done"
    /\ ToUnmatched(last.log)
    /\ GroupToMatchEntries(PathInfos(last.log[1].to.pathname,
                                     QueryDictOf(last.log[1].to.search))) # <<>>
    /\ \E n \in Nodes : last.pre.matched[n]
    /\ location = last.log[1].to
    /\ source.matchToMatchEntryMap = <<>>
    /\ \A n \in Nodes : ~matched[n]

\* C29: the flags of the matches agree with the committed snapshot in every
\* state between the steps of the transitions, however the transitions so
\* far have ended: the matches whose matched flag is set are the keys of the
\* committed matchToMatchEntryMap, the exact flag of each of them is the
\* exact of its entry, and no other match has its exact flag set.
FlagsAgreeWithSnapshot ==
    /\ {n \in Nodes : matched[n]} = Range(Keys(source.matchToMatchEntryMap))
    /\ \A n \in Nodes :
          exact[n] = (/\ HasKey(source.matchToMatchEntryMap, n)
                      /\ EntryOf(source.matchToMatchEntryMap, n).exact)

\* C29 witness: with a location committed before, a transition has committed
\* a snapshot with a match that is exact and one that is not, a match has
\* left, and the transition has then failed in an after hook; the flags are
\* those of the snapshot.
FlagsAgreeWithSnapshotWitness ==
    /\ last.outcome = "throw"
    /\ last.pre.location # NoLocation
    /\ Count(last.log, "commit") = 1
    /\ location.id = last.id
    /\ \E n, m \in Nodes :
          /\ matched[n] /\ exact[n]
          /\ matched[m] /\ ~exact[m]
          /\ HasKey(source.matchToMatchEntryMap, n)
          /\ HasKey(source.matchToMatchEntryMap, m)
    /\ \E n \in Nodes : last.pre.matched[n] /\ ~matched[n]
=============================================================================
